---- MODULE Spec2Model ----
(***************************************************************************)
(* MusRen: the enrichment-and-rename pipeline of core/audio_processor.py   *)
(* and the cover fallback chain of core/artwork.py.                        *)
(*                                                                         *)
(* A file name, a tag value and a path are sequences of one-character      *)
(* strings, so that sanitizing, splitting off the extension and appending  *)
(* a collision suffix are computed character by character as the Python    *)
(* code computes them.                                                     *)
(***************************************************************************)
EXTENDS Integers, Sequences, FiniteSets, TLC

VARIABLES
    os_type,      \* self.os_type, platform.system()
    installed,    \* optional libraries that can be imported
    dir,          \* the directory: file -> its current name (NoFile when lost)
    meta,         \* file -> the tags mutagen reads from it
    pc,           \* position of the caller (cli) in the pipeline
    files,        \* rename_files / undo_rename: the listing taken at the start
    idx,          \* index of the loop over files / over changes.items()
    changes,      \* the change set, an insertion-ordered dict as a sequence of <<new, old>>
    dir0,         \* history: the directory at the start of the rename pass
    faults,       \* history: number of os.rename calls that raised OSError
    oslog,        \* history: for every call of os.rename, <<old, new, raised>> and the
                  \* <<name, changed>> that _safe_rename then returned
    args,         \* process_files: [use_recognition, process_lyrics]
    task,         \* file -> the future of its _process_file_with_lyrics task
    results,      \* process_files: the mapping file name -> outcome
    meta0,        \* history: the tags at the start of the enrichment pass
    calls,        \* history: file -> number of recognizer calls, metadata writes, lyrics lookups
    cover,        \* fetch_album_cover: its position, the services queried, their answers, the result
    call,         \* _sanitize_filename: the call's position, its argument, the value returned
    touched,      \* history: the files something else removed or renamed after the pass
    embed,        \* embed_album_art: the file's tags and pictures, the image, the calls made
    update,       \* _update_audio_metadata: the file's format and tags, the value returned
    recog,        \* _recognize_song: the recordings the lookup gave, the metadata returned
    saferename    \* _safe_rename, statement by statement: its locals and its position

renameVars == <<files, idx, changes, dir0, faults, oslog>>
batchVars == <<args, task, results, meta0, calls>>
coverVars == <<cover>>
sanitizeVars == <<call>>
unitVars == <<embed, update, recog, saferename>>

vars == <<os_type, installed, dir, meta, pc, files, idx, changes, dir0, faults, oslog,
          args, task, results, meta0, calls, cover, call, touched,
          embed, update, recog, saferename>>

-----------------------------------------------------------------------------
(* Bounds *)

NumFiles == 2
MaxFaults == 1
LongLen == 300

Files == 1..NumFiles
NoFile == <<"<", "n", "o", "f", "i", "l", "e", ">">>

-----------------------------------------------------------------------------
(* Strings *)

LowerLetters == <<"a","b","c","d","e","f","g","h","i","j","k","l","m",
                  "n","o","p","q","r","s","t","u","v","w","x","y","z">>
UpperLetters == <<"A","B","C","D","E","F","G","H","I","J","K","L","M",
                  "N","O","P","Q","R","S","T","U","V","W","X","Y","Z">>

LowerSet == { LowerLetters[k] : k \in 1..Len(LowerLetters) }
UpperSet == { UpperLetters[k] : k \in 1..Len(UpperLetters) }

IndexIn(c, letters) == CHOOSE k \in 1..Len(letters) : letters[k] = c

\* str.upper() and str.lower(), one character at a time
UpperChar(c) == IF c \in LowerSet THEN UpperLetters[IndexIn(c, LowerLetters)] ELSE c
LowerChar(c) == IF c \in UpperSet THEN LowerLetters[IndexIn(c, UpperLetters)] ELSE c
Upper(s) == [k \in 1..Len(s) |-> UpperChar(s[k])]
Lower(s) == [k \in 1..Len(s) |-> LowerChar(s[k])]

\* s[:k] of Python, k possibly negative
Slice(s, k) ==
    IF k >= 0
    THEN SubSeq(s, 1, IF k < Len(s) THEN k ELSE Len(s))
    ELSE SubSeq(s, 1, IF Len(s) + k > 0 THEN Len(s) + k ELSE 0)

StartsWith(s, prefix) ==
    /\ Len(prefix) <= Len(s)
    /\ SubSeq(s, 1, Len(prefix)) = prefix

EndsWith(s, suffix) ==
    /\ Len(suffix) <= Len(s)
    /\ SubSeq(s, Len(s) - Len(suffix) + 1, Len(s)) = suffix

\* re.sub(chars, "", s): drop every character of the class
RemoveChars(s, class) == SelectSeq(s, LAMBDA c : c \notin class)

\* re.sub(r"/", "-", s)
ReplaceChar(s, from, to) == [k \in 1..Len(s) |-> IF s[k] = from THEN to ELSE s[k]]

\* str.strip(chars): drop the leading and the trailing characters of the class
RECURSIVE LStrip(_, _)
LStrip(s, class) ==
    IF s # <<>> /\ Head(s) \in class THEN LStrip(Tail(s), class) ELSE s

RECURSIVE RStrip(_, _)
RStrip(s, class) ==
    IF s # <<>> /\ s[Len(s)] \in class THEN RStrip(SubSeq(s, 1, Len(s) - 1), class) ELSE s

Strip(s, class) == RStrip(LStrip(s, class), class)

Whitespace == {" ", "\t", "\n", "\r", "\f"}

\* str(n) for a natural number
DigitChars == <<"0","1","2","3","4","5","6","7","8","9">>

RECURSIVE Str(_)
Str(n) == IF n < 10 THEN <<DigitChars[n + 1]>> ELSE Str(n \div 10) \o <<DigitChars[(n % 10) + 1]>>

\* str.rfind(c): the last index of c, 0 when absent (Python: -1)
RFind(s, c) ==
    IF \E k \in 1..Len(s) : s[k] = c
    THEN CHOOSE k \in 1..Len(s) : s[k] = c /\ \A m \in (k + 1)..Len(s) : s[m] # c
    ELSE 0

\* os.path.splitext: <<root, ext>>; the extension starts at the last dot
\* unless only dots precede it in the last path component
SplitExt(p) ==
    LET sepIndex == RFind(p, "/")
        dotIndex == RFind(p, ".")
    IN  IF dotIndex > sepIndex
           /\ \E k \in (sepIndex + 1)..(dotIndex - 1) : p[k] # "."
        THEN <<SubSeq(p, 1, dotIndex - 1), SubSeq(p, dotIndex, Len(p))>>
        ELSE <<p, <<>>>>

\* os.path.join(a, b)
Join(a, b) ==
    IF b # <<>> /\ Head(b) = "/" THEN b
    ELSE IF a = <<>> \/ a[Len(a)] = "/" THEN a \o b
    ELSE a \o <<"/">> \o b

-----------------------------------------------------------------------------
(* Program constants *)

max_length == 255

UnknownArtist == <<"U","n","k","n","o","w","n"," ","A","r","t","i","s","t">>
UnknownTitle == <<"U","n","k","n","o","w","n"," ","T","i","t","l","e">>

AUDIO_EXTENSIONS == { <<".","m","p","3">>, <<".","f","l","a","c">>, <<".","m","4","a">> }

invalid_chars == {"<", ">", ":", "\"", "/", "\\", "|", "?", "*", "\t", "\n", "\r", "\f"}

forbidden_names ==
    { <<"C","O","N">>, <<"P","R","N">>, <<"A","U","X">>, <<"N","U","L">> }
    \cup { <<"C","O","M", DigitChars[d + 1]>> : d \in 1..9 }
    \cup { <<"L","P","T", DigitChars[d + 1]>> : d \in 1..9 }

\* self.directory
directory == <<"/", "d">>

-----------------------------------------------------------------------------
(* AudioProcessor._sanitize_filename *)

SanitizeDialect(dialect, filename) ==
    IF dialect = "Windows"
    THEN LET stripped == RemoveChars(filename, invalid_chars)
         IN  IF Upper(stripped) \in forbidden_names THEN <<"_">> \o stripped ELSE stripped
    ELSE Strip(ReplaceChar(filename, "/", "-"), {"."})

Sanitize(dialect, filename) ==
    LET sanitized == Strip(SanitizeDialect(dialect, filename), Whitespace)
        base0 == SplitExt(sanitized)[1]
        ext == SplitExt(sanitized)[2]
        base == IF Len(sanitized) > max_length
                THEN Slice(base0, max_length - Len(ext) - 1)
                ELSE base0
        capped == IF Len(sanitized) > max_length THEN base \o ext ELSE sanitized
    IN  IF base = <<>>
        THEN <<"a","u","d","i","o","_","f","i","l","e">> \o ext
        ELSE capped

\* no call of _sanitize_filename under way
NoCall == [stage |-> "none", filename |-> <<>>, result |-> <<>>]

\* no call of embed_album_art, _update_audio_metadata, _recognize_song, _safe_rename under way
NoEmbed == [stage |-> "none"]
NoUpdate == [stage |-> "none"]
NoRecog == [stage |-> "none"]
NoSafeRename == [stage |-> "none"]

UnitsIdle ==
    /\ embed = NoEmbed
    /\ update = NoUpdate
    /\ recog = NoRecog
    /\ saferename = NoSafeRename

\* _sanitize_filename(filename) returns
SanitizeReturn ==
    /\ call.stage = "called"
    /\ call' = [call EXCEPT !.stage = "returned", !.result = Sanitize(os_type, call.filename)]
    /\ UNCHANGED <<os_type, installed, dir, meta, pc, renameVars, batchVars, cover, touched, unitVars>>

\* _sanitize_filename is called on the name it has returned, and returns
SanitizeAgain ==
    /\ call.stage = "returned"
    /\ call' = [stage |-> "returned again", filename |-> call.result,
                result |-> Sanitize(os_type, call.result)]
    /\ UNCHANGED <<os_type, installed, dir, meta, pc, renameVars, batchVars, cover, touched, unitVars>>

-----------------------------------------------------------------------------
(* The directory *)

\* os.listdir: the names present
Names(d) == { d[f] : f \in {g \in Files : d[g] # NoFile} }

\* get_audio_files: the entries whose lowered name ends with an audio extension
get_audio_files(d) == { n \in Names(d) : \E e \in AUDIO_EXTENSIONS : EndsWith(Lower(n), e) }

\* os.path.exists of a path; "." and ".." of the directory always exist
Exists(d, path) ==
    \/ \E n \in Names(d) : Join(directory, n) = path
    \/ path \in { Join(directory, <<".">>), Join(directory, <<".", ".">>) }

FileAt(d, path) == CHOOSE f \in Files : d[f] # NoFile /\ Join(directory, d[f]) = path

\* the name a path of the directory denotes
NameOf(path) == SubSeq(path, RFind(path, "/") + 1, Len(path))

\* os.rename(old_path, new_path) that does not raise: the file at old_path
\* takes the new name; a file that was at new_path is replaced
os_rename(d, old_path, new_path) ==
    [f \in Files |->
        IF f = FileAt(d, old_path) THEN NameOf(new_path)
        ELSE IF d[f] # NoFile /\ Join(directory, d[f]) = new_path THEN NoFile
        ELSE d[f]]

\* os.rename raises OSError: the environment refuses (ok = FALSE), the source
\* is missing, or on Windows the target exists
os_rename_raises(d, old_path, new_path, ok) ==
    \/ ~ok
    \/ ~(\E n \in Names(d) : Join(directory, n) = old_path)
    \/ (os_type = "Windows" /\ old_path # new_path /\ Exists(d, new_path))

-----------------------------------------------------------------------------
(* AudioProcessor._safe_rename *)

\* the while loop: the first of new_name, "base (1)ext", "base (2)ext", ...
\* whose path does not exist
RECURSIVE FreeName(_, _, _, _, _)
FreeName(d, new_name, base, extension, counter) ==
    IF Exists(d, Join(directory, new_name))
    THEN FreeName(d, base \o <<" ", "(">> \o Str(counter) \o <<")">> \o extension,
                  base, extension, counter + 1)
    ELSE new_name

\* _safe_rename without the collision loop: the sanitized name is used as it is
SafeRename_NoLoop(d, old_name, new_name, ok) ==
    LET old_path == Join(directory, old_name)
        new_path == Join(directory, new_name)
        final == Sanitize(os_type, new_name)
        final_path == Join(directory, final)
    IN  IF old_path = new_path
        THEN [name |-> old_name, changed |-> FALSE, dir |-> d,
              called |-> FALSE, target |-> <<>>, raised |-> FALSE]
        ELSE IF os_rename_raises(d, old_path, final_path, ok)
        THEN [name |-> old_name, changed |-> FALSE, dir |-> d,
              called |-> TRUE, target |-> final, raised |-> TRUE]
        ELSE [name |-> final, changed |-> TRUE,
              dir |-> os_rename(d, old_path, final_path),
              called |-> TRUE, target |-> final, raised |-> FALSE]

\* _safe_rename without the early return for old_path == new_path
SafeRename_NoEarlyReturn(d, old_name, new_name, ok) ==
    LET old_path == Join(directory, old_name)
        sanitized == Sanitize(os_type, new_name)
        base == SplitExt(sanitized)[1]
        extension == SplitExt(sanitized)[2]
        final == FreeName(d, sanitized, base, extension, 1)
        final_path == Join(directory, final)
    IN  IF os_rename_raises(d, old_path, final_path, ok)
        THEN [name |-> old_name, changed |-> FALSE, dir |-> d,
              called |-> TRUE, target |-> final, raised |-> TRUE]
        ELSE [name |-> final, changed |-> TRUE,
              dir |-> os_rename(d, old_path, final_path),
              called |-> TRUE, target |-> final, raised |-> FALSE]

\* _safe_rename when the handler of OSError reports the rename as made
SafeRename_FailureReportsChange(d, old_name, new_name, ok) ==
    LET old_path == Join(directory, old_name)
        new_path == Join(directory, new_name)
    IN  IF old_path = new_path
        THEN [name |-> old_name, changed |-> FALSE, dir |-> d,
              called |-> FALSE, target |-> <<>>, raised |-> FALSE]
        ELSE LET sanitized == Sanitize(os_type, new_name)
                 base == SplitExt(sanitized)[1]
                 extension == SplitExt(sanitized)[2]
                 final == FreeName(d, sanitized, base, extension, 1)
                 final_path == Join(directory, final)
             IN  IF os_rename_raises(d, old_path, final_path, ok)
                 THEN [name |-> final, changed |-> TRUE, dir |-> d,
                       called |-> TRUE, target |-> final, raised |-> TRUE]
                 ELSE [name |-> final, changed |-> TRUE,
                       dir |-> os_rename(d, old_path, final_path),
                       called |-> TRUE, target |-> final, raised |-> FALSE]

\* the result of _safe_rename(old_name, new_name) on directory d:
\*   name, changed : the returned tuple
\*   dir           : the directory afterwards
\*   called        : whether os.rename was reached, and target, the name handed to it
\*   raised        : whether os.rename raised
SafeRename(d, old_name, new_name, ok) ==
    LET old_path == Join(directory, old_name)
        new_path == Join(directory, new_name)
    IN  IF old_path = new_path
        THEN [name |-> old_name, changed |-> FALSE, dir |-> d,
              called |-> FALSE, target |-> <<>>, raised |-> FALSE]
        ELSE LET sanitized == Sanitize(os_type, new_name)
                 base == SplitExt(sanitized)[1]
                 extension == SplitExt(sanitized)[2]
                 final == FreeName(d, sanitized, base, extension, 1)
                 final_path == Join(directory, final)
             IN  IF os_rename_raises(d, old_path, final_path, ok)
                 THEN [name |-> old_name, changed |-> FALSE, dir |-> d,
                       called |-> TRUE, target |-> final, raised |-> TRUE]
                 ELSE [name |-> final, changed |-> TRUE,
                       dir |-> os_rename(d, old_path, final_path),
                       called |-> TRUE, target |-> final, raised |-> FALSE]

-----------------------------------------------------------------------------
(* AudioProcessor._safe_rename, statement by statement *)

\* f"{base} ({counter}){extension}"
WithCounter(base, counter, extension) == base \o <<" ", "(">> \o Str(counter) \o <<")">> \o extension

\* a call of _safe_rename(old_name, new_name) at its first statement
SafeRenameCalled(old_name, new_name) ==
    [stage |-> "called", old_name |-> old_name, arg |-> new_name, new_name |-> new_name,
     base |-> <<>>, extension |-> <<>>, counter |-> 1,
     called |-> FALSE, target |-> <<>>, raised |-> FALSE, name |-> <<>>, changed |-> FALSE]

saferenameFrame == <<os_type, installed, meta, pc, renameVars, batchVars, cover, call, touched,
                     embed, update, recog>>

\* up to the loop: the early return when the paths are equal, else the sanitized name,
\* its base and extension, counter = 1
SafeRenameEnter ==
    /\ saferename.stage = "called"
    /\ \E sanitized \in {Sanitize(os_type, saferename.new_name)} :
       \E parts \in {SplitExt(sanitized)} :
          IF Join(directory, saferename.old_name) = Join(directory, saferename.new_name)
          THEN saferename' = [saferename EXCEPT !.stage = "returned",
                                                !.name = saferename.old_name, !.changed = FALSE]
          ELSE saferename' = [saferename EXCEPT !.stage = "loop", !.new_name = sanitized,
                                                !.base = parts[1], !.extension = parts[2],
                                                !.counter = 1]
    /\ UNCHANGED <<dir, saferenameFrame>>

\* one round of the loop without counter += 1
SafeRenameLoop_NoIncrement ==
    /\ saferename.stage = "loop"
    /\ Exists(dir, Join(directory, saferename.new_name))
    /\ saferename' = [saferename EXCEPT
           !.new_name = WithCounter(saferename.base, saferename.counter, saferename.extension)]
    /\ UNCHANGED <<dir, saferenameFrame>>

\* one round of the loop: new_path exists, the next suffixed name is formed
SafeRenameLoop ==
    /\ saferename.stage = "loop"
    /\ Exists(dir, Join(directory, saferename.new_name))
    /\ saferename' = [saferename EXCEPT
           !.new_name = WithCounter(saferename.base, saferename.counter, saferename.extension),
           !.counter = @ + 1]
    /\ UNCHANGED <<dir, saferenameFrame>>

\* the loop is left: os.rename(old_path, new_path), and the return of either branch
SafeRenameOs ==
    /\ saferename.stage = "loop"
    /\ ~Exists(dir, Join(directory, saferename.new_name))
    /\ \E ok \in BOOLEAN :
          LET old_path == Join(directory, saferename.old_name)
              new_path == Join(directory, saferename.new_name)
          IN  IF os_rename_raises(dir, old_path, new_path, ok)
              THEN /\ saferename' = [saferename EXCEPT
                          !.stage = "returned", !.called = TRUE, !.target = saferename.new_name,
                          !.raised = TRUE, !.name = saferename.old_name, !.changed = FALSE]
                   /\ dir' = dir
              ELSE /\ saferename' = [saferename EXCEPT
                          !.stage = "returned", !.called = TRUE, !.target = saferename.new_name,
                          !.raised = FALSE, !.name = saferename.new_name, !.changed = TRUE]
                   /\ dir' = os_rename(dir, old_path, new_path)
    /\ UNCHANGED saferenameFrame

-----------------------------------------------------------------------------
(* Tags, as mutagen's File(path, easy=True) gives them *)

\* kind "unreadable": File() raises; "none": File() is None or has no tags;
\* "tags": a tag mapping, where has[k] says whether key k is present
Tags(artistHas, artist, titleHas, title) ==
    [kind |-> "tags", has |-> [artist |-> artistHas, title |-> titleHas],
     val |-> [artist |-> artist, title |-> title]]

Unreadable == [kind |-> "unreadable", has |-> [artist |-> FALSE, title |-> FALSE],
               val |-> [artist |-> <<>>, title |-> <<>>]]

NoTags == [kind |-> "none", has |-> [artist |-> FALSE, title |-> FALSE],
           val |-> [artist |-> <<>>, title |-> <<>>]]

\* audio.get(key, [default])[0]
TagGet(t, key, default) == IF t.has[key] THEN t.val[key] ELSE default

-----------------------------------------------------------------------------
(* AudioProcessor.rename_files *)

\* the skip test without the comparison with the placeholder values
Skipped_NoPlaceholder(t) ==
    \/ "mutagen" \notin installed
    \/ t.kind = "unreadable"
    \/ t.kind = "none"
    \/ TagGet(t, "artist", <<>>) = <<>>
    \/ TagGet(t, "title", <<>>) = <<>>

\* the file is skipped: mutagen missing, File() raised, no tags, or artist or
\* title empty or a placeholder
Skipped(t) ==
    \/ "mutagen" \notin installed
    \/ t.kind = "unreadable"
    \/ t.kind = "none"
    \/ TagGet(t, "artist", <<>>) = <<>>
    \/ TagGet(t, "title", <<>>) = <<>>
    \/ TagGet(t, "artist", <<>>) = UnknownArtist
    \/ TagGet(t, "title", <<>>) = UnknownTitle

\* f"{artist} - {title}{os.path.splitext(file)[1]}"
NewName(t, file) ==
    TagGet(t, "artist", <<>>) \o <<" ", "-", " ">> \o TagGet(t, "title", <<>>) \o SplitExt(file)[2]

\* changes[key] = value on an insertion-ordered dict
DictSet(c, key, value) ==
    IF \E k \in 1..Len(c) : c[k][1] = key
    THEN [k \in 1..Len(c) |-> IF c[k][1] = key THEN <<key, value>> ELSE c[k]]
    ELSE Append(c, <<key, value>>)

Keys(c) == { c[k][1] : k \in 1..Len(c) }
Values(c) == { c[k][2] : k \in 1..Len(c) }

\* the orders in which os.listdir may give a set of names
Listings(S) == { s \in [1..Cardinality(S) -> S] : \A a, b \in 1..Cardinality(S) : a # b => s[a] # s[b] }

\* files = get_audio_files(self.directory); changes = {}
RenameStart ==
    /\ pc = "idle"
    /\ \E listing \in Listings(get_audio_files(dir)) : files' = listing
    /\ idx' = 1
    /\ changes' = <<>>
    /\ dir0' = dir
    /\ pc' = "rename"
    /\ UNCHANGED <<os_type, installed, dir, meta, faults, oslog, batchVars, cover, call, touched, unitVars>>

\* the loop body when the change set is keyed by the computed name instead of the
\* name _safe_rename returned
RenameFile_ComputedKey ==
    /\ pc = "rename"
    /\ idx <= Len(files)
    /\ LET file == files[idx]
           t == meta[FileAt(dir, Join(directory, file))]
       IN  IF Skipped(t)
           THEN UNCHANGED <<dir, changes, faults, oslog>>
           ELSE \E ok \in {b \in BOOLEAN : b \/ faults < MaxFaults} :
                    LET r == SafeRename(dir, file, NewName(t, file), ok)
                    IN  /\ dir' = r.dir
                        /\ changes' = IF r.changed
                                      THEN DictSet(changes, NewName(t, file), file)
                                      ELSE changes
                        /\ faults' = IF r.called /\ ~ok THEN faults + 1 ELSE faults
                        /\ oslog' = IF r.called
                                    THEN Append(oslog, <<file, r.target, r.raised, r.name, r.changed>>)
                                    ELSE oslog
    /\ idx' = idx + 1
    /\ UNCHANGED <<os_type, installed, meta, pc, files, dir0, batchVars, cover, call, touched, unitVars>>

\* the loop when the try statement encloses it: an exception of File() ends the pass
RenameFile_StopsOnFailure ==
    /\ pc = "rename"
    /\ idx <= Len(files)
    /\ LET file == files[idx]
           t == meta[FileAt(dir, Join(directory, file))]
       IN  /\ IF Skipped(t)
              THEN UNCHANGED <<dir, changes, faults, oslog>>
              ELSE \E ok \in {b \in BOOLEAN : b \/ faults < MaxFaults} :
                       LET r == SafeRename(dir, file, NewName(t, file), ok)
                       IN  /\ dir' = r.dir
                           /\ changes' = IF r.changed THEN DictSet(changes, r.name, file) ELSE changes
                           /\ faults' = IF r.called /\ ~ok THEN faults + 1 ELSE faults
                           /\ oslog' = IF r.called
                                       THEN Append(oslog, <<file, r.target, r.raised, r.name, r.changed>>)
                                       ELSE oslog
           /\ idx' = IF "mutagen" \in installed /\ t.kind = "unreadable"
                     THEN Len(files) + 1
                     ELSE idx + 1
    /\ UNCHANGED <<os_type, installed, meta, pc, files, dir0, batchVars, cover, call, touched, unitVars>>

\* the loop when it runs over the directory as it is, so that a name given during the
\* pass is met again
RenameFile_LiveListing ==
    /\ pc = "rename"
    /\ idx <= Len(files)
    /\ LET file == files[idx]
           t == meta[FileAt(dir, Join(directory, file))]
       IN  IF Skipped(t)
           THEN UNCHANGED <<dir, changes, faults, oslog, files>>
           ELSE \E ok \in {b \in BOOLEAN : b \/ faults < MaxFaults} :
                    LET r == SafeRename(dir, file, NewName(t, file), ok)
                    IN  /\ dir' = r.dir
                        /\ changes' = IF r.changed THEN DictSet(changes, r.name, file) ELSE changes
                        /\ faults' = IF r.called /\ ~ok THEN faults + 1 ELSE faults
                        /\ oslog' = IF r.called
                                    THEN Append(oslog, <<file, r.target, r.raised, r.name, r.changed>>)
                                    ELSE oslog
                        /\ files' = IF r.changed /\ Len(files) <= NumFiles
                                    THEN Append(files, r.name)
                                    ELSE files
    /\ idx' = idx + 1
    /\ UNCHANGED <<os_type, installed, meta, pc, dir0, batchVars, cover, call, touched, unitVars>>

\* one iteration of "for file in files"
RenameFile ==
    /\ pc = "rename"
    /\ idx <= Len(files)
    /\ LET file == files[idx]
           t == meta[FileAt(dir, Join(directory, file))]
       IN  IF Skipped(t)
           THEN UNCHANGED <<dir, changes, faults, oslog>>
           ELSE \E ok \in {b \in BOOLEAN : b \/ faults < MaxFaults} :
                    LET r == SafeRename(dir, file, NewName(t, file), ok)
                    IN  /\ dir' = r.dir
                        /\ changes' = IF r.changed THEN DictSet(changes, r.name, file) ELSE changes
                        /\ faults' = IF r.called /\ ~ok THEN faults + 1 ELSE faults
                        /\ oslog' = IF r.called
                                    THEN Append(oslog, <<file, r.target, r.raised, r.name, r.changed>>)
                                    ELSE oslog
    /\ idx' = idx + 1
    /\ UNCHANGED <<os_type, installed, meta, pc, files, dir0, batchVars, cover, call, touched, unitVars>>

\* return changes: the locals files and file go out of scope
RenameReturn ==
    /\ pc = "rename"
    /\ idx > Len(files)
    /\ pc' = "renamed"
    /\ files' = <<>>
    /\ idx' = 1
    /\ UNCHANGED <<os_type, installed, dir, meta, changes, dir0, faults, oslog, batchVars, cover, call, touched, unitVars>>

-----------------------------------------------------------------------------
(* AudioProcessor.undo_rename *)

\* files = get_audio_files(self.directory)
UndoStart ==
    /\ pc = "renamed"
    /\ \E listing \in Listings(get_audio_files(dir)) : files' = listing
    /\ idx' = 1
    /\ pc' = "undo"
    /\ UNCHANGED <<os_type, installed, dir, meta, changes, dir0, faults, oslog, batchVars, cover, call, touched, unitVars>>

InListing(name, listing) == \E k \in 1..Len(listing) : listing[k] = name

\* the loop body when the entry is renamed back with os.rename itself
UndoEntry_Direct ==
    /\ pc = "undo"
    /\ idx <= Len(changes)
    /\ LET new_name == changes[idx][1]
           old_name == changes[idx][2]
           old_path == Join(directory, new_name)
           new_path == Join(directory, old_name)
       IN  IF ~InListing(new_name, files)
           THEN UNCHANGED <<dir, faults, oslog>>
           ELSE \E ok \in {b \in BOOLEAN : b \/ faults < MaxFaults} :
                    LET raised == os_rename_raises(dir, old_path, new_path, ok)
                    IN  /\ dir' = IF raised THEN dir ELSE os_rename(dir, old_path, new_path)
                        /\ faults' = IF ~ok THEN faults + 1 ELSE faults
                        /\ oslog' = Append(oslog, <<new_name, old_name, raised,
                                                    IF raised THEN new_name ELSE old_name, ~raised>>)
    /\ idx' = idx + 1
    /\ UNCHANGED <<os_type, installed, meta, pc, files, changes, dir0, batchVars, cover, call, touched, unitVars>>

\* one iteration of "for new_name, old_name in changes.items()"
UndoEntry ==
    /\ pc = "undo"
    /\ idx <= Len(changes)
    /\ LET new_name == changes[idx][1]
           old_name == changes[idx][2]
       IN  IF ~InListing(new_name, files)
           THEN UNCHANGED <<dir, faults, oslog>>
           ELSE \E ok \in {b \in BOOLEAN : b \/ faults < MaxFaults} :
                    LET r == SafeRename(dir, new_name, old_name, ok)
                    IN  /\ dir' = r.dir
                        /\ faults' = IF r.called /\ ~ok THEN faults + 1 ELSE faults
                        /\ oslog' = IF r.called
                                    THEN Append(oslog, <<new_name, r.target, r.raised, r.name, r.changed>>)
                                    ELSE oslog
    /\ idx' = idx + 1
    /\ UNCHANGED <<os_type, installed, meta, pc, files, changes, dir0, batchVars, cover, call, touched, unitVars>>

UndoReturn ==
    /\ pc = "undo"
    /\ idx > Len(changes)
    /\ pc' = "undone"
    /\ files' = <<>>
    /\ idx' = 1
    /\ UNCHANGED <<os_type, installed, dir, meta, changes, dir0, faults, oslog, batchVars, cover, call, touched, unitVars>>

-----------------------------------------------------------------------------
(* Between rename_files() and undo_rename(): the caller waits for the user's answer, *)
(* and something else may remove a file of the directory or give it another name     *)

\* a name no file of the directory bears
OtherName(f) == <<"z">> \o Str(f) \o <<".", "m", "p", "3">>

ExternalTouch ==
    /\ pc = "renamed"
    /\ \E f \in Files \ touched :
          /\ dir[f] # NoFile
          /\ \E name \in {NoFile, OtherName(f)} : dir' = [dir EXCEPT ![f] = name]
          /\ touched' = touched \cup {f}
    /\ UNCHANGED <<os_type, installed, meta, pc, renameVars, batchVars, cover, call, unitVars>>

-----------------------------------------------------------------------------
(* AudioProcessor.process_files and the worker pool *)

\* self.max_workers
max_workers == 4

\* {} and d[k] = v of a Python dict
EmptyDict == [k \in {} |-> TRUE]
Put(d, k, v) == (k :> v) @@ d

\* a future: st is "none" (not submitted), "queued", the position of the running
\* task ("read", "recognize", "lyrics"), "done" (returned result) or "raised" (exc);
\* file is future_to_file[future], file_path the argument the task was submitted with;
\* collected is 0, or k when as_completed gave the future as the k-th
NoTask ==
    [st |-> "none", file |-> <<>>, file_path |-> <<>>, result |-> EmptyDict,
     artist_for_lyrics |-> <<>>, title_for_lyrics |-> <<>>, exc |-> "", collected |-> 0]

\* the file a task works on: the one at its file_path
Of(f) == FileAt(dir, task[f].file_path)

Running(f) == task[f].st \in {"read", "recognize", "lyrics"}

PositionIn(name, listing) == CHOOSE k \in 1..Len(listing) : listing[k] = name

\* what the environment may answer
RecognitionChoices ==
    { [status |-> FALSE, message |-> "No matches found in the database"],
      [status |-> TRUE, artist |-> <<"r">>, title |-> <<"s">>, album |-> <<"l">>, score |-> 1] }

LyricsChoices ==
    { [status |-> FALSE, message |-> "No synchronized lyrics found"],
      [status |-> TRUE, lyrics |-> <<"l", "r", "c">>] }

\* audio.get("artist", ["Unknown Artist"])[0] if audio else "Unknown Artist"
CurrentArtist(t) == IF t.kind = "tags" THEN TagGet(t, "artist", UnknownArtist) ELSE UnknownArtist
CurrentTitle(t) == IF t.kind = "tags" THEN TagGet(t, "title", UnknownTitle) ELSE UnknownTitle

\* needs_recognition when it ignores the tags
NeedsRecognition_Always(use_recognition, current_artist, current_title) == use_recognition

\* needs_recognition when it ignores use_recognition
NeedsRecognition_IgnoresFlag(use_recognition, current_artist, current_title) ==
    current_artist = UnknownArtist \/ current_title = UnknownTitle

\* needs_recognition
NeedsRecognition(use_recognition, current_artist, current_title) ==
    use_recognition /\ (current_artist = UnknownArtist \/ current_title = UnknownTitle)

\* _update_audio_metadata that saved: the artist and title tags take the recognized values
UpdateTags(t, recognition) == Tags(TRUE, recognition.artist, TRUE, recognition.title)

\* files = get_audio_files(self.directory); results = {}; either return at once
\* or submit one task per file
ProcessStart ==
    /\ pc = "idle"
    /\ \E listing \in Listings(get_audio_files(dir)) :
          /\ files' = listing
          /\ IF listing = <<>> \/ ~args.process_lyrics
             THEN /\ pc' = "processed"
                  /\ task' = task
             ELSE /\ pc' = "processing"
                  /\ task' = [f \in Files |->
                                 IF InListing(dir[f], listing)
                                 THEN [NoTask EXCEPT !.st = "queued",
                                                     !.file = dir[f],
                                                     !.file_path = Join(directory, dir[f])]
                                 ELSE NoTask]
    /\ results' = EmptyDict
    /\ meta0' = meta
    /\ UNCHANGED <<os_type, installed, dir, meta, idx, changes, dir0, faults, oslog, args, calls, cover, call, touched, unitVars>>

\* a worker of the pool takes the oldest queued task
TaskStart(f) ==
    /\ pc = "processing"
    /\ task[f].st = "queued"
    /\ Cardinality({g \in Files : Running(g)}) < max_workers
    /\ \A g \in Files :
          task[g].st = "queued" => PositionIn(dir[f], files) <= PositionIn(dir[g], files)
    /\ task' = [task EXCEPT ![f].st = "read"]
    /\ UNCHANGED <<os_type, installed, dir, meta, pc, renameVars, args, results, meta0, calls, cover, call, touched, unitVars>>

\* _process_file_with_lyrics up to needs_recognition
TaskRead(f) ==
    /\ task[f].st = "read"
    /\ task' =
          IF "mutagen" \notin installed
          THEN [task EXCEPT ![f].st = "done",
                            ![f].result = [status |-> FALSE, message |-> "mutagen is not installed"]]
          ELSE IF meta[Of(f)].kind = "unreadable"
          THEN [task EXCEPT ![f].st = "raised", ![f].exc = "cannot read file"]
          ELSE [task EXCEPT
                  ![f].st = IF NeedsRecognition(args.use_recognition,
                                                CurrentArtist(meta[Of(f)]),
                                                CurrentTitle(meta[Of(f)]))
                            THEN "recognize" ELSE "lyrics",
                  ![f].artist_for_lyrics = CurrentArtist(meta[Of(f)]),
                  ![f].title_for_lyrics = CurrentTitle(meta[Of(f)])]
    /\ UNCHANGED <<os_type, installed, dir, meta, pc, renameVars, args, results, meta0, calls, cover, call, touched, unitVars>>

\* the needs_recognition branch when a failed recognition returns the result at once
TaskRecognize_FailureReturns(f) ==
    /\ task[f].st = "recognize"
    /\ \E recognition \in RecognitionChoices, update_success \in BOOLEAN :
          IF recognition.status
          THEN /\ task' = [task EXCEPT
                             ![f].st = "lyrics",
                             ![f].result =
                                 Put(Put(Put(Put(Put(Put(task[f].result,
                                     "recognition", TRUE),
                                     "artist", recognition.artist),
                                     "title", recognition.title),
                                     "album", recognition.album),
                                     "score", recognition.score),
                                     "metadata_updated", update_success),
                             ![f].artist_for_lyrics = recognition.artist,
                             ![f].title_for_lyrics = recognition.title]
               /\ meta' = IF update_success
                          THEN [meta EXCEPT ![Of(f)] = UpdateTags(meta[Of(f)], recognition)]
                          ELSE meta
               /\ calls' = [calls EXCEPT ![Of(f)].recognize = @ + 1, ![Of(f)].write = @ + 1]
          ELSE /\ update_success = FALSE
               /\ task' = [task EXCEPT
                             ![f].st = "done",
                             ![f].result =
                                 Put(Put(task[f].result,
                                     "recognition", FALSE),
                                     "recognition_error", recognition.message)]
               /\ meta' = meta
               /\ calls' = [calls EXCEPT ![Of(f)].recognize = @ + 1]
    /\ UNCHANGED <<os_type, installed, dir, pc, renameVars, args, results, meta0, cover, call, touched, unitVars>>

\* the needs_recognition branch: _recognize_song, then _update_audio_metadata
TaskRecognize(f) ==
    /\ task[f].st = "recognize"
    /\ \E recognition \in RecognitionChoices, update_success \in BOOLEAN :
          IF recognition.status
          THEN /\ task' = [task EXCEPT
                             ![f].st = "lyrics",
                             ![f].result =
                                 Put(Put(Put(Put(Put(Put(task[f].result,
                                     "recognition", TRUE),
                                     "artist", recognition.artist),
                                     "title", recognition.title),
                                     "album", recognition.album),
                                     "score", recognition.score),
                                     "metadata_updated", update_success),
                             ![f].artist_for_lyrics = recognition.artist,
                             ![f].title_for_lyrics = recognition.title]
               /\ meta' = IF update_success
                          THEN [meta EXCEPT ![Of(f)] = UpdateTags(meta[Of(f)], recognition)]
                          ELSE meta
               /\ calls' = [calls EXCEPT ![Of(f)].recognize = @ + 1, ![Of(f)].write = @ + 1]
          ELSE /\ update_success = FALSE
               /\ task' = [task EXCEPT
                             ![f].st = "lyrics",
                             ![f].result =
                                 Put(Put(task[f].result,
                                     "recognition", FALSE),
                                     "recognition_error", recognition.message)]
               /\ meta' = meta
               /\ calls' = [calls EXCEPT ![Of(f)].recognize = @ + 1]
    /\ UNCHANGED <<os_type, installed, dir, pc, renameVars, args, results, meta0, cover, call, touched, unitVars>>

\* the lyrics stage when every stage reports its error in the slot of the recognition error
TaskLyrics_SharedSlot(f) ==
    /\ task[f].st = "lyrics"
    /\ \E lyrics_result \in LyricsChoices, embedded \in BOOLEAN :
          IF lyrics_result.status
          THEN task' = [task EXCEPT
                          ![f].st = "done",
                          ![f].result =
                              IF embedded
                              THEN Put(Put(task[f].result,
                                       "lyrics_found", TRUE),
                                       "lyrics_embedded", TRUE)
                              ELSE Put(Put(Put(task[f].result,
                                       "lyrics_found", TRUE),
                                       "lyrics_embedded", FALSE),
                                       "recognition_error", "Error embedding lyrics")]
          ELSE /\ embedded = FALSE
               /\ task' = [task EXCEPT
                             ![f].st = "done",
                             ![f].result =
                                 Put(Put(task[f].result,
                                     "lyrics_found", FALSE),
                                     "recognition_error", lyrics_result.message)]
    /\ calls' = [calls EXCEPT ![Of(f)].lyrics = @ + 1]
    /\ UNCHANGED <<os_type, installed, dir, meta, pc, renameVars, args, results, meta0, cover, call, touched, unitVars>>

\* _fetch_synced_lyrics, _embed_lyrics and return result
TaskLyrics(f) ==
    /\ task[f].st = "lyrics"
    /\ \E lyrics_result \in LyricsChoices, embedded \in BOOLEAN :
          IF lyrics_result.status
          THEN task' = [task EXCEPT
                          ![f].st = "done",
                          ![f].result =
                              IF embedded
                              THEN Put(Put(task[f].result,
                                       "lyrics_found", TRUE),
                                       "lyrics_embedded", TRUE)
                              ELSE Put(Put(Put(task[f].result,
                                       "lyrics_found", TRUE),
                                       "lyrics_embedded", FALSE),
                                       "embed_error", "Error embedding lyrics")]
          ELSE /\ embedded = FALSE
               /\ task' = [task EXCEPT
                             ![f].st = "done",
                             ![f].result =
                                 Put(Put(task[f].result,
                                     "lyrics_found", FALSE),
                                     "lyrics_error", lyrics_result.message)]
    /\ calls' = [calls EXCEPT ![Of(f)].lyrics = @ + 1]
    /\ UNCHANGED <<os_type, installed, dir, meta, pc, renameVars, args, results, meta0, cover, call, touched, unitVars>>

\* the loop over as_completed when the exception of future.result() is not caught
Collect_Propagates(f) ==
    /\ pc = "processing"
    /\ task[f].st \in {"done", "raised"}
    /\ task[f].collected = 0
    /\ IF task[f].st = "raised"
       THEN /\ pc' = "aborted"
            /\ results' = results
       ELSE /\ pc' = pc
            /\ results' = Put(results, task[f].file, task[f].result)
    /\ task' = [task EXCEPT ![f].collected = Cardinality({g \in Files : task[g].collected > 0}) + 1]
    /\ UNCHANGED <<os_type, installed, dir, meta, renameVars, args, meta0, calls, cover, call, touched, unitVars>>

\* the loop over as_completed when the key is not looked up in future_to_file: file is
\* still the last file of the submission loop
Collect_StaleKey(f) ==
    /\ pc = "processing"
    /\ task[f].st \in {"done", "raised"}
    /\ task[f].collected = 0
    /\ results' = Put(results, files[Len(files)],
                      IF task[f].st = "raised" THEN [error |-> task[f].exc] ELSE task[f].result)
    /\ task' = [task EXCEPT ![f].collected = Cardinality({g \in Files : task[g].collected > 0}) + 1]
    /\ UNCHANGED <<os_type, installed, dir, meta, pc, renameVars, args, meta0, calls, cover, call, touched, unitVars>>

\* one iteration of the loop over as_completed(future_to_file)
Collect(f) ==
    /\ pc = "processing"
    /\ task[f].st \in {"done", "raised"}
    /\ task[f].collected = 0
    /\ results' = Put(results, task[f].file,
                      IF task[f].st = "raised" THEN [error |-> task[f].exc] ELSE task[f].result)
    /\ task' = [task EXCEPT ![f].collected = Cardinality({g \in Files : task[g].collected > 0}) + 1]
    /\ UNCHANGED <<os_type, installed, dir, meta, pc, renameVars, args, meta0, calls, cover, call, touched, unitVars>>

\* process_files when the pool is left without waiting for its tasks
ProcessReturn_NoWait ==
    /\ pc = "processing"
    /\ pc' = "processed"
    /\ files' = <<>>
    /\ UNCHANGED <<os_type, installed, dir, meta, idx, changes, dir0, faults, oslog, batchVars, cover, call, touched, unitVars>>

\* every future has been collected: the pool shuts down, return results
ProcessReturn ==
    /\ pc = "processing"
    /\ \A f \in Files : task[f].st # "none" => task[f].collected > 0
    /\ pc' = "processed"
    /\ files' = <<>>
    /\ UNCHANGED <<os_type, installed, dir, meta, idx, changes, dir0, faults, oslog, batchVars, cover, call, touched, unitVars>>

\* main of the command line: process_files has returned, the rename is confirmed and
\* processor.rename_files() starts
MainRenameFiles ==
    /\ pc = "processed"
    /\ \E listing \in Listings(get_audio_files(dir)) : files' = listing
    /\ idx' = 1
    /\ changes' = <<>>
    /\ dir0' = dir
    /\ pc' = "rename"
    /\ UNCHANGED <<os_type, installed, dir, meta, faults, oslog, batchVars, cover, call, touched, unitVars>>

-----------------------------------------------------------------------------
(* AlbumArtManager.fetch_album_cover *)

\* None, "" and a raised ImportError, each unlike any answer or URL
None == [none |-> TRUE]
EmptyString == [empty |-> TRUE]
ImportError == [kind |-> "ImportError"]

\* stage: "idle", "musicbrainz", "coverartarchive", "itunes", "deezer", "returned"
\* queried: the services a request was sent to, in order
\* release, itunes, deezer: what the services answered
NoFetch ==
    [stage |-> "idle", queried |-> <<>>, release |-> None, head |-> None,
     itunes |-> None, deezer |-> None, result |-> None]

\* answers of musicbrainzngs.search_releases: it raises, finds nothing, or finds a release
ReleaseAnswers == { [kind |-> "raises"], [kind |-> "empty"], [kind |-> "release", id |-> "r1"] }

\* answers of requests.head on the Cover Art Archive
HeadAnswers == { [kind |-> "raises"], [kind |-> "response", status |-> 200],
                 [kind |-> "response", status |-> 404] }

\* answers of the iTunes search: it raises, an HTTP status other than 200, or 200 with
\* a body: no result, a result without artworkUrl100, a result with it
ITunesAnswers ==
    { [kind |-> "raises"],
      [kind |-> "response", status |-> 503],
      [kind |-> "response", status |-> 200, resultCount |-> 0],
      [kind |-> "response", status |-> 200, resultCount |-> 1,
       result |-> [collectionName |-> "n"]],
      [kind |-> "response", status |-> 200, resultCount |-> 1,
       result |-> [collectionName |-> "n",
                   artworkUrl100 |-> [host |-> "itunes", id |-> "a1", size |-> "100x100"]]] }

\* answers of the Deezer search, likewise; a result holds any of cover_xl, cover_big, cover
DeezerResults ==
    { [title |-> "t"],
      [cover |-> [host |-> "deezer", id |-> "d1", size |-> "small"]],
      [cover_big |-> [host |-> "deezer", id |-> "d1", size |-> "big"],
       cover |-> [host |-> "deezer", id |-> "d1", size |-> "small"]],
      [cover_xl |-> [host |-> "deezer", id |-> "d1", size |-> "xl"],
       cover_big |-> [host |-> "deezer", id |-> "d1", size |-> "big"],
       cover |-> [host |-> "deezer", id |-> "d1", size |-> "small"]] }

DeezerAnswers ==
    { [kind |-> "raises"], [kind |-> "response", status |-> 503],
      [kind |-> "response", status |-> 200, total |-> 0] }
    \cup { [kind |-> "response", status |-> 200, total |-> 1, result |-> r] : r \in DeezerResults }

\* f"https://coverartarchive.org/release/{release_id}/front"
FrontCoverUrl(release_id) == [host |-> "coverartarchive", id |-> release_id, size |-> "front"]

\* result.get("artworkUrl100", "").replace("100x100", "600x600")
Upgrade(result) ==
    IF "artworkUrl100" \in DOMAIN result
    THEN [result.artworkUrl100 EXCEPT
             !.size = IF @ = "100x100" THEN "600x600" ELSE @]
    ELSE EmptyString

\* result.get("cover_xl") or result.get("cover_big") or result.get("cover")
BestDeezerCover(result) ==
    IF "cover_xl" \in DOMAIN result THEN result.cover_xl
    ELSE IF "cover_big" \in DOMAIN result THEN result.cover_big
    ELSE IF "cover" \in DOMAIN result THEN result.cover
    ELSE None

\* response.status_code, 0 when the request raised
Status(answer) == IF answer.kind = "response" THEN answer.status ELSE 0

coverFrame == <<os_type, installed, dir, meta, pc, renameVars, batchVars, call, touched, unitVars>>

FetchStart ==
    /\ cover.stage = "idle"
    /\ cover' = [cover EXCEPT !.stage = "musicbrainz"]
    /\ UNCHANGED coverFrame

\* import musicbrainzngs; search_releases(release=album, artist=artist, limit=1)
QueryMusicBrainz ==
    /\ cover.stage = "musicbrainz"
    /\ IF "musicbrainzngs" \notin installed
       THEN cover' = [cover EXCEPT !.stage = "itunes", !.release = ImportError]
       ELSE \E answer \in ReleaseAnswers :
               cover' = [cover EXCEPT
                           !.queried = Append(@, "musicbrainz"),
                           !.release = answer,
                           !.stage = IF answer.kind = "release"
                                     THEN "coverartarchive" ELSE "itunes"]
    /\ UNCHANGED coverFrame

\* requests.head(cover_url, timeout=5): return cover_url on status 200
VerifyCoverArtArchive ==
    /\ cover.stage = "coverartarchive"
    /\ IF "requests" \notin installed
       THEN cover' = [cover EXCEPT !.stage = "itunes", !.head = ImportError]
       ELSE \E answer \in HeadAnswers :
               cover' = [cover EXCEPT
                           !.queried = Append(@, "coverartarchive"),
                           !.head = answer,
                           !.stage = IF Status(answer) = 200 THEN "returned" ELSE "itunes",
                           !.result = IF Status(answer) = 200
                                      THEN FrontCoverUrl(cover.release.id) ELSE @]
    /\ UNCHANGED coverFrame

\* the iTunes stage when a result found does not end the chain
QueryITunes_NoReturn ==
    /\ cover.stage = "itunes"
    /\ IF "requests" \notin installed
       THEN cover' = [cover EXCEPT !.stage = "deezer", !.itunes = ImportError]
       ELSE \E answer \in ITunesAnswers :
               cover' = [cover EXCEPT
                           !.queried = Append(@, "itunes"),
                           !.itunes = answer,
                           !.stage = IF answer.kind = "raises" THEN "returned" ELSE "deezer",
                           !.result = IF Status(answer) = 200 /\ answer.resultCount > 0
                                      THEN Upgrade(answer.result)
                                      ELSE None]
    /\ UNCHANGED coverFrame

\* requests.get on the iTunes search: return the upgraded artworkUrl100 of the first
\* result; an exception is caught by the outer handler, which returns None
QueryITunes ==
    /\ cover.stage = "itunes"
    /\ IF "requests" \notin installed
       THEN cover' = [cover EXCEPT !.stage = "deezer", !.itunes = ImportError]
       ELSE \E answer \in ITunesAnswers :
               cover' = [cover EXCEPT
                           !.queried = Append(@, "itunes"),
                           !.itunes = answer,
                           !.stage = IF answer.kind = "raises" THEN "returned"
                                     ELSE IF Status(answer) = 200 /\ answer.resultCount > 0
                                     THEN "returned"
                                     ELSE "deezer",
                           !.result = IF Status(answer) = 200 /\ answer.resultCount > 0
                                      THEN Upgrade(answer.result)
                                      ELSE None]
    /\ UNCHANGED coverFrame

\* requests.get on the Deezer search: return the best cover of the first result, else None
QueryDeezer ==
    /\ cover.stage = "deezer"
    /\ IF "requests" \notin installed
       THEN cover' = [cover EXCEPT !.stage = "returned", !.deezer = ImportError, !.result = None]
       ELSE \E answer \in DeezerAnswers :
               cover' = [cover EXCEPT
                           !.queried = Append(@, "deezer"),
                           !.deezer = answer,
                           !.stage = "returned",
                           !.result = IF Status(answer) = 200 /\ answer.total > 0
                                      THEN BestDeezerCover(answer.result)
                                      ELSE None]
    /\ UNCHANGED coverFrame

-----------------------------------------------------------------------------
(* AlbumArtManager.embed_album_art *)

\* b"\x89PNG\r\n\x1a\n"
PngSignature == <<137, 80, 78, 71, 13, 10, 26, 10>>

\* image_data[:8].startswith(b"\x89PNG\r\n\x1a\n")
IsPng(image_data) == StartsWith(Slice(image_data, 8), PngSignature)

\* frame, tag and atom names
APIC == <<"A", "P", "I", "C">>
TIT2 == <<"T", "I", "T", "2">>
covr == <<"c", "o", "v", "r">>
CoverDesc == <<"C", "o", "v", "e", "r">>

\* Frame.HashKey of a picture frame: "APIC:" + desc
HashKey(desc) == APIC \o <<":">> \o desc

\* a dict restricted to some of its keys, and del d[k]
Restrict(d, keys) == [k \in keys |-> d[k]]
Del(d, key) == Restrict(d, DOMAIN d \ {key})

\* an audio file as mutagen loads it: header says whether an ID3 header is there (MP3);
\* frames maps frame keys, tag names or atom names to values, the pictures of an MP3
\* (APIC frames) and of an M4A (the covr atom) among them; pictures is FLAC's picture list
LoadedFile(ext, header, frames, pictures) ==
    [ext |-> ext, header |-> header, frames |-> frames, pictures |-> pictures]

\* one more call of embed_album_art has returned value, leaving the file as given;
\* attempt is the save that succeeded (0: none did), failures is 1 when a save raised
Returned(value, attempt, file, failures) ==
    [embed EXCEPT
        !.returned = Append(@, value),
        !.attempt = Append(@, attempt),
        !.before = Append(@, embed.file),
        !.after = Append(@, file),
        !.file = file,
        !.faults = @ + failures]

embedFrame == <<os_type, installed, dir, meta, pc, renameVars, batchVars, cover, call, touched,
                update, recog, saferename>>

\* the calls are made on a file and with an image
EmbedCallable == embed.stage = "ready" /\ Len(embed.returned) < 2

\* Picture / APIC(encoding=3, mime=..., type=3, desc="Cover", data=image_data)
CoverPicture(image_data) ==
    [mime |-> IF IsPng(image_data) THEN "image/png" ELSE "image/jpeg",
     type |-> 3, desc |-> CoverDesc, data |-> image_data]

\* whether the saves of one more call may raise
MayFail == embed.faults < MaxFaults

\* no image data, or a format other than .mp3, .flac, .m4a: return False
EmbedRejected ==
    /\ EmbedCallable
    /\ embed.image_data = <<>> \/ embed.file.ext \notin {".mp3", ".flac", ".m4a"}
    /\ embed' = Returned(FALSE, 0, embed.file, 0)
    /\ UNCHANGED embedFrame

\* _embed_mp3_art: the frames other than APIC are copied into new tags, the new picture is
\* added and the tags saved; an exception (of the import, of save) gives False
EmbedMp3Art ==
    /\ EmbedCallable
    /\ embed.image_data # <<>>
    /\ embed.file.ext = ".mp3"
    /\ LET original_tags ==
               IF embed.file.header
               THEN Restrict(embed.file.frames,
                             {k \in DOMAIN embed.file.frames : ~StartsWith(k, APIC)})
               ELSE EmptyDict
           picture == CoverPicture(embed.image_data)
           tags == Put(original_tags, HashKey(picture.desc), picture)
       IN  IF "mutagen" \notin installed
           THEN embed' = Returned(FALSE, 0, embed.file, 0)
           ELSE \/ embed' = Returned(TRUE, 1, LoadedFile(".mp3", TRUE, tags, <<>>), 0)
                \/ MayFail /\ embed' = Returned(FALSE, 0, embed.file, 1)
    /\ UNCHANGED embedFrame

\* _embed_flac_art without audio.clear_pictures()
EmbedFlacArt_NoClear ==
    /\ EmbedCallable
    /\ embed.image_data # <<>>
    /\ embed.file.ext = ".flac"
    /\ IF "mutagen" \notin installed
       THEN embed' = Returned(FALSE, 0, embed.file, 0)
       ELSE \/ embed' = Returned(TRUE, 1,
                           [embed.file EXCEPT !.pictures = Append(@, CoverPicture(embed.image_data))], 0)
            \/ MayFail /\ embed' = Returned(FALSE, 0, embed.file, 1)
    /\ UNCHANGED embedFrame

\* _embed_flac_art: the pictures are cleared, the new one is added and the file saved
EmbedFlacArt ==
    /\ EmbedCallable
    /\ embed.image_data # <<>>
    /\ embed.file.ext = ".flac"
    /\ IF "mutagen" \notin installed
       THEN embed' = Returned(FALSE, 0, embed.file, 0)
       ELSE \/ embed' = Returned(TRUE, 1,
                           [embed.file EXCEPT !.pictures = <<CoverPicture(embed.image_data)>>], 0)
            \/ MayFail /\ embed' = Returned(FALSE, 0, embed.file, 1)
    /\ UNCHANGED embedFrame

\* _embed_m4a_art: the covr atom is deleted and set to the one new cover, in the detected
\* format; when saving raises, once more in the other format
EmbedM4aArt ==
    /\ EmbedCallable
    /\ embed.image_data # <<>>
    /\ embed.file.ext = ".m4a"
    /\ LET format_type == IF IsPng(embed.image_data) THEN "FORMAT_PNG" ELSE "FORMAT_JPEG"
           alt_format == IF format_type = "FORMAT_JPEG" THEN "FORMAT_PNG" ELSE "FORMAT_JPEG"
           audio == Del(embed.file.frames, covr)
           Saved(format) ==
               [embed.file EXCEPT
                   !.frames = Put(audio, covr, <<[data |-> embed.image_data, imageformat |-> format]>>)]
       IN  IF "mutagen" \notin installed
           THEN embed' = Returned(FALSE, 0, embed.file, 0)
           ELSE \/ embed' = Returned(TRUE, 1, Saved(format_type), 0)
                \/ MayFail /\ embed' = Returned(TRUE, 2, Saved(alt_format), 1)
                \/ MayFail /\ embed' = Returned(FALSE, 0, embed.file, 1)
    /\ UNCHANGED embedFrame

\* the number of pictures a file holds
PictureCount(file) ==
    CASE file.ext = ".mp3" -> Cardinality({k \in DOMAIN file.frames : StartsWith(k, APIC)})
      [] file.ext = ".flac" -> Len(file.pictures)
      [] OTHER -> IF covr \in DOMAIN file.frames THEN Len(file.frames[covr]) ELSE 0

\* the tags of a file that are not pictures
NonPicture(file) ==
    Restrict(file.frames, {k \in DOMAIN file.frames : ~StartsWith(k, APIC) /\ k # covr})

-----------------------------------------------------------------------------
(* AudioProcessor._recognize_song: the metadata taken from the AcoustID result *)

\* d.get(key, default) of a dict
Get(d, key, default) == IF key \in DOMAIN d THEN d[key] ELSE default

\* a value of the service's JSON: a number, or a string (a sequence of characters)
Number(n) == [kind |-> "int", v |-> n]
Text(s) == [kind |-> "str", v |-> s]

\* str(value), as an f-string and str() format it
PyStr(value) == IF value.kind = "int" THEN Str(value.v) ELSE value.v

\* whether int(value) returns: int("") raises ValueError
CanInt(value) == value.kind = "int"

RECURSIVE Flatten(_)
Flatten(seqs) == IF seqs = <<>> THEN <<>> ELSE Head(seqs) \o Flatten(Tail(seqs))

\* for release in recording["releases"]: for medium in release["mediums"]:
\* for track in medium["tracks"]: the tracks with track.get("id") == recording.get("id"),
\* each with its medium and release, in the order the loops meet them
MediumMatches(recording, release, medium) ==
    LET tracks == Get(medium, "tracks", <<>>)
        hits == SelectSeq(tracks, LAMBDA track : Get(track, "id", "None") = Get(recording, "id", "None"))
    IN  [k \in 1..Len(hits) |-> [release |-> release, medium |-> medium, track |-> hits[k]]]

ReleaseMatches(recording, release) ==
    LET mediums == Get(release, "mediums", <<>>)
    IN  Flatten([k \in 1..Len(mediums) |-> MediumMatches(recording, release, mediums[k])])

Matches(recording) ==
    LET releases == Get(recording, "releases", <<>>)
    IN  Flatten([k \in 1..Len(releases) |-> ReleaseMatches(recording, releases[k])])

\* the four assignments made for one matching track
TrackFields(match) ==
    [tracknumber |-> Get(match.track, "position", Text(<<>>)),
     discnumber |-> Get(match.medium, "position", Text(<<>>)),
     totaltracks |-> Get(match.medium, "track-count", Text(<<>>)),
     totaldiscs |-> Get(match.release, "medium-count", Text(<<>>))]

\* every matching track assigns the four keys again: the last one met stays
MatchUsed(recording) == Matches(recording)[Len(Matches(recording))]

PutIf(cond, d, key, value) == IF cond THEN Put(d, key, value) ELSE d

UnknownAlbum == <<"U","n","k","n","o","w","n"," ","A","l","b","u","m">>

\* the metadata built from the first recording of the first result (the score, the AcoustID,
\* the album type, the date, the tag list and the cover URL are left out)
ExtractMetadata(recording) ==
    LET artists == Get(recording, "artists", <<>>)
        releasegroups == Get(recording, "releasegroups", <<>>)
        genres == Get(recording, "genres", <<>>)
        m1 == Put(Put(EmptyDict, "status", TRUE), "artist",
                  IF artists # <<>> THEN artists[1].name ELSE UnknownArtist)
        m2 == Put(m1, "title", Get(recording, "title", UnknownTitle))
        m3 == Put(m2, "album",
                  IF releasegroups # <<>> THEN Get(releasegroups[1], "title", UnknownAlbum)
                  ELSE UnknownAlbum)
        m4 == PutIf(releasegroups # <<>> /\ Get(releasegroups[1], "artists", <<>>) # <<>>,
                    m3, "albumartist", Get(releasegroups[1], "artists", <<[name |-> <<>>]>>)[1].name)
        fields == TrackFields(MatchUsed(recording))
        m5 == IF Matches(recording) = <<>> THEN m4
              ELSE Put(Put(Put(Put(m4, "tracknumber", fields.tracknumber),
                               "discnumber", fields.discnumber),
                           "totaltracks", fields.totaltracks),
                       "totaldiscs", fields.totaldiscs)
    IN  PutIf(genres # <<>>, m5, "genre", Get(genres, 1, [name |-> <<>>]).name)

\* {"status": False, "message": ...}
NotRecognized == Put(EmptyDict, "status", FALSE)

recogFrame == <<os_type, installed, dir, meta, pc, renameVars, batchVars, cover, call, touched,
                embed, update, saferename>>

\* _recognize_song returns: the metadata of the first recording, or status False when the
\* lookup raised or gave no recording
RecognizeSong ==
    /\ recog.stage = "called"
    /\ \/ recog' = [recog EXCEPT !.stage = "returned",
                       !.metadata = IF recog.recordings = <<>> THEN NotRecognized
                                    ELSE ExtractMetadata(recog.recordings[1])]
       \/ recog' = [recog EXCEPT !.stage = "returned", !.metadata = NotRecognized]
    /\ UNCHANGED recogFrame

-----------------------------------------------------------------------------
(* AudioProcessor._update_audio_metadata: the tags written from the metadata *)

\* the ID3 frame of each field, in the order the frames are set
id3_mapping ==
    <<<<"title", "TIT2">>, <<"artist", "TPE1">>, <<"album", "TALB">>, <<"genre", "TCON">>,
      <<"albumartist", "TPE2">>>>

\* field_mapping of the FLAC and OGG branch (the date and the composer are never recognized)
vorbis_mapping ==
    <<<<"title", "title">>, <<"artist", "artist">>, <<"album", "album">>, <<"genre", "genre">>,
      <<"tracknumber", "tracknumber">>, <<"discnumber", "discnumber">>,
      <<"albumartist", "albumartist">>, <<"totaltracks", "totaltracks">>,
      <<"totaldiscs", "totaldiscs">>>>

\* field_mapping of the M4A branch
mp4_mapping ==
    <<<<"title", "nam">>, <<"artist", "ART">>, <<"album", "alb">>, <<"genre", "gen">>,
      <<"albumartist", "aART">>>>

\* the fields that are numbers or strings of the service, the others being text
TrackKeys == {"tracknumber", "discnumber", "totaltracks", "totaldiscs"}

\* the text of a metadata value
TextOf(metadata, key) ==
    IF key \in TrackKeys THEN PyStr(Get(metadata, key, Text(<<>>))) ELSE Get(metadata, key, <<>>)

\* for meta_key, file_key in mapping: if meta_key in metadata: tags[file_key] = the text,
\* or [text] when listed
RECURSIVE SetMapped(_, _, _, _)
SetMapped(tags, metadata, mapping, listed) ==
    IF mapping = <<>> THEN tags
    ELSE LET meta_key == Head(mapping)[1]
             file_key == Head(mapping)[2]
             text == TextOf(metadata, meta_key)
         IN  SetMapped(PutIf(meta_key \in DOMAIN metadata, tags, file_key,
                             IF listed THEN <<text>> ELSE text),
                       metadata, Tail(mapping), listed)

\* f"{value}/{total}" when the total is in the metadata, the value itself otherwise
Numbered(metadata, key, total_key) ==
    IF total_key \in DOMAIN metadata
    THEN PyStr(metadata[key]) \o <<"/">> \o PyStr(metadata[total_key])
    ELSE PyStr(metadata[key])

UpdateMp3(tags, metadata) ==
    LET t1 == SetMapped(tags, metadata, id3_mapping, FALSE)
        t2 == PutIf("tracknumber" \in DOMAIN metadata, t1, "TRCK",
                    Numbered(metadata, "tracknumber", "totaltracks"))
    IN  PutIf("discnumber" \in DOMAIN metadata, t2, "TPOS",
              Numbered(metadata, "discnumber", "totaldiscs"))

UpdateVorbis(tags, metadata) == SetMapped(tags, metadata, vorbis_mapping, FALSE)

\* [(int(number), int(total))], the total 0 when it is missing; nothing when int() raises
Pair(tags, metadata, key, total_key, file_key) ==
    LET total == Get(metadata, total_key, Number(0))
    IN  PutIf(key \in DOMAIN metadata /\ CanInt(Get(metadata, key, Number(0))) /\ CanInt(total),
              tags, file_key,
              <<<<Get(metadata, key, Number(0)).v, IF total.v > 0 THEN total.v ELSE 0>>>>)

UpdateMp4(tags, metadata) ==
    Pair(Pair(SetMapped(tags, metadata, mp4_mapping, TRUE),
              metadata, "tracknumber", "totaltracks", "trkn"),
         metadata, "discnumber", "totaldiscs", "disk")

updateFrame == <<os_type, installed, dir, meta, pc, renameVars, batchVars, cover, call, touched,
                 embed, recog, saferename>>

\* _update_audio_metadata(file_path, recognition), called when recognition["status"]: the
\* tags are read, set from the metadata and saved; an exception gives False. The cover the
\* metadata may name is embedded after the save and changes pictures only.
UpdateAudioMetadata ==
    /\ recog.stage = "returned"
    /\ recog.metadata.status
    /\ update.stage = "ready"
    /\ LET written ==
               CASE update.ext = <<".", "m", "p", "3">> -> UpdateMp3(update.tags, recog.metadata)
                 [] update.ext = <<".", "f", "l", "a", "c">> -> UpdateVorbis(update.tags, recog.metadata)
                 [] OTHER -> UpdateMp4(update.tags, recog.metadata)
       IN  IF "mutagen" \notin installed
           THEN update' = [update EXCEPT !.stage = "returned", !.returned = FALSE]
           ELSE \/ update' = [update EXCEPT !.stage = "returned", !.returned = TRUE,
                                            !.tags = written]
                \/ update' = [update EXCEPT !.stage = "returned", !.returned = FALSE]
    /\ UNCHANGED updateFrame

-----------------------------------------------------------------------------
(* The directories and tags the rename pass is checked on *)

ExtMp3 == <<".", "m", "p", "3">>

NameChoices ==
    << <<"x">> \o ExtMp3,
       <<".", "y">> \o ExtMp3,
       <<"a", " ", "-", " ", "b">> \o ExtMp3,
       <<"a", " ", "-", " ", "b", " ", "(", "1", ")">> \o ExtMp3,
       <<"n", ".", "t", "x", "t">> >>

TagChoices ==
    { Unreadable,
      NoTags,
      Tags(TRUE, <<"a">>, TRUE, <<"b">>),
      Tags(TRUE, <<"/", "a">>, TRUE, <<"b">>),
      Tags(TRUE, UnknownArtist, TRUE, <<"b">>),
      Tags(TRUE, <<"a">>, TRUE, UnknownTitle),
      Tags(TRUE, <<"a">>, FALSE, <<>>) }

\* file f holds an earlier name of NameChoices than file f + 1: the files are
\* interchangeable, the listing order is what varies
Directories ==
    { [f \in Files |-> NameChoices[s[f]]] :
        s \in { t \in [Files -> 1..Len(NameChoices)] : \A f \in Files : f + 1 \in Files => t[f] < t[f + 1] } }

InitRename ==
    /\ os_type \in {"Windows", "Linux"}
    /\ installed \in { {"mutagen"}, {} }
    /\ dir \in Directories
    /\ meta \in [Files -> TagChoices]
    /\ pc = "idle"
    /\ files = <<>>
    /\ idx = 1
    /\ changes = <<>>
    /\ dir0 = dir
    /\ faults = 0
    /\ oslog = <<>>
    /\ args = [use_recognition |-> FALSE, process_lyrics |-> FALSE]
    /\ task = [f \in Files |-> NoTask]
    /\ results = EmptyDict
    /\ meta0 = meta
    /\ calls = [f \in Files |-> [recognize |-> 0, write |-> 0, lyrics |-> 0]]
    /\ cover = NoFetch
    /\ call = NoCall
    /\ touched = {}
    /\ UnitsIdle

NextRename ==
    \/ RenameStart
    \/ RenameFile
    \/ RenameReturn
    \/ UndoStart
    \/ UndoEntry
    \/ UndoReturn

SpecRename == InitRename /\ [][NextRename]_vars

\* the rename pass and undo, with the directory changing in between
UndoTagChoices ==
    { NoTags,
      Tags(TRUE, <<"a">>, TRUE, <<"b">>),
      Tags(TRUE, <<"/", "a">>, TRUE, <<"b">>),
      Tags(TRUE, <<"a">>, TRUE, UnknownTitle) }

InitUndo ==
    /\ InitRename
    /\ "mutagen" \in installed
    /\ \A f \in Files : meta[f] \in UndoTagChoices

NextUndo ==
    \/ NextRename
    \/ ExternalTouch

SpecUndo == InitUndo /\ [][NextUndo]_vars

-----------------------------------------------------------------------------
(* The directories and tags the enrichment pass is checked on *)

BatchTagChoices ==
    { Unreadable,
      NoTags,
      Tags(TRUE, <<"a">>, TRUE, <<"b">>),
      Tags(TRUE, <<"a">>, FALSE, <<>>),
      Tags(TRUE, UnknownArtist, TRUE, <<"b">>) }

InitBatch ==
    /\ os_type \in {"Windows", "Linux"}
    /\ installed \in { {"mutagen"}, {} }
    /\ dir \in { d \in Directories : \A f \in Files : d[f] \notin {NameChoices[3], NameChoices[4]} }
    /\ meta \in [Files -> BatchTagChoices]
    /\ pc = "idle"
    /\ files = <<>>
    /\ idx = 1
    /\ changes = <<>>
    /\ dir0 = dir
    /\ faults = 0
    /\ oslog = <<>>
    /\ args \in [use_recognition : BOOLEAN, process_lyrics : BOOLEAN]
    /\ task = [f \in Files |-> NoTask]
    /\ results = EmptyDict
    /\ meta0 = meta
    /\ calls = [f \in Files |-> [recognize |-> 0, write |-> 0, lyrics |-> 0]]
    /\ cover = NoFetch
    /\ call = NoCall
    /\ touched = {}
    /\ UnitsIdle

NextBatch ==
    \/ ProcessStart
    \/ \E f \in Files : TaskStart(f)
    \/ \E f \in Files : TaskRead(f)
    \/ \E f \in Files : TaskRecognize(f)
    \/ \E f \in Files : TaskLyrics(f)
    \/ \E f \in Files : Collect(f)
    \/ ProcessReturn

SpecBatch == InitBatch /\ [][NextBatch]_vars

-----------------------------------------------------------------------------
(* The environments the cover chain is checked in *)

InitCover ==
    /\ os_type \in {"Windows", "Linux"}
    /\ installed \in SUBSET {"musicbrainzngs", "requests"}
    /\ dir = [f \in Files |-> NameChoices[f]]
    /\ meta = [f \in Files |-> NoTags]
    /\ pc = "idle"
    /\ files = <<>>
    /\ idx = 1
    /\ changes = <<>>
    /\ dir0 = dir
    /\ faults = 0
    /\ oslog = <<>>
    /\ args = [use_recognition |-> FALSE, process_lyrics |-> FALSE]
    /\ task = [f \in Files |-> NoTask]
    /\ results = EmptyDict
    /\ meta0 = meta
    /\ calls = [f \in Files |-> [recognize |-> 0, write |-> 0, lyrics |-> 0]]
    /\ cover = NoFetch
    /\ call = NoCall
    /\ touched = {}
    /\ UnitsIdle

NextCover ==
    \/ FetchStart
    \/ QueryMusicBrainz
    \/ VerifyCoverArtArchive
    \/ QueryITunes
    \/ QueryDeezer

SpecCover == InitCover /\ [][NextCover]_vars

-----------------------------------------------------------------------------
(* The names _sanitize_filename is checked on *)

\* n times the character c
Repeat(c, n) == [k \in 1..n |-> c]

\* stems: empty, plain, reserved device names in both cases, made of stripped characters
\* only, blank, a dot, with a separator
StemChoices ==
    { <<>>, <<"a">>, <<"C", "O", "N">>, <<"c", "o", "n">>, <<"l", "p", "t", "1">>,
      <<"?">>, <<" ">>, <<".">>, <<"/", "a">> }

\* the stem is lengthened to bring the name up to, just over and far over max_length
PadChoices == {0, max_length - 5, max_length - 4, LongLen}

ExtChoices == { <<>>, ExtMp3, <<".", "f", "l", "a", "c">>, <<".">> \o Repeat("e", LongLen) }

SanitizeInputs ==
    { stem \o Repeat("b", pad) \o ext : stem \in StemChoices, pad \in PadChoices, ext \in ExtChoices }

\* the files and images embed_album_art is checked on
BackDesc == <<"B", "a", "c", "k">>
Title == [text |-> "title"]
Jpeg == <<255, 216, 255, 224>>
Png == PngSignature \o <<0>>
OldPicture(desc) == [mime |-> "image/jpeg", type |-> 3, desc |-> desc, data |-> Jpeg]
OldCover == [data |-> Jpeg, imageformat |-> "FORMAT_JPEG"]

SubDicts(d) == { Restrict(d, keys) : keys \in SUBSET DOMAIN d }

Mp3Choices ==
    {LoadedFile(".mp3", FALSE, EmptyDict, <<>>)} \cup
    { LoadedFile(".mp3", TRUE, frames, <<>>) :
        frames \in SubDicts(Put(Put(Put(EmptyDict, TIT2, Title),
                                    HashKey(CoverDesc), OldPicture(CoverDesc)),
                                HashKey(BackDesc), OldPicture(BackDesc))) }

FlacChoices ==
    { LoadedFile(".flac", FALSE, frames, pictures) :
        frames \in SubDicts(Put(EmptyDict, TIT2, Title)),
        pictures \in {<<>>, <<OldPicture(CoverDesc)>>,
                      <<OldPicture(CoverDesc), OldPicture(BackDesc)>>} }

M4aChoices ==
    { LoadedFile(".m4a", FALSE, frames, <<>>) :
        frames \in SubDicts(Put(EmptyDict, TIT2, Title)) } \cup
    { LoadedFile(".m4a", FALSE, Put(frames, covr, covers), <<>>) :
        frames \in SubDicts(Put(EmptyDict, TIT2, Title)),
        covers \in {<<OldCover>>, <<OldCover, OldCover>>} }

EmbedFiles ==
    Mp3Choices \cup FlacChoices \cup M4aChoices \cup {LoadedFile(".ogg", FALSE, EmptyDict, <<>>)}

EmbedImages == {<<>>, Jpeg, Png, Slice(PngSignature, 4)}

InitEmbed ==
    /\ os_type = "Linux"
    /\ installed \in {{}, {"mutagen"}}
    /\ dir = [f \in Files |-> NameChoices[f]]
    /\ meta = [f \in Files |-> NoTags]
    /\ pc = "idle"
    /\ files = <<>>
    /\ idx = 1
    /\ changes = <<>>
    /\ dir0 = dir
    /\ faults = 0
    /\ oslog = <<>>
    /\ args = [use_recognition |-> FALSE, process_lyrics |-> FALSE]
    /\ task = [f \in Files |-> NoTask]
    /\ results = EmptyDict
    /\ meta0 = meta
    /\ calls = [f \in Files |-> [recognize |-> 0, write |-> 0, lyrics |-> 0]]
    /\ cover = NoFetch
    /\ call = NoCall
    /\ touched = {}
    /\ \E file \in EmbedFiles, image_data \in EmbedImages :
          embed = [stage |-> "ready", file |-> file, image_data |-> image_data,
                   returned |-> <<>>, attempt |-> <<>>, before |-> <<>>, after |-> <<>>,
                   faults |-> 0]
    /\ update = NoUpdate
    /\ recog = NoRecog
    /\ saferename = NoSafeRename

NextEmbed == EmbedRejected \/ EmbedMp3Art \/ EmbedFlacArt \/ EmbedM4aArt

SpecEmbed == InitEmbed /\ [][NextEmbed]_vars

\* the enrichment pass followed by the rename pass, as main runs them
InitPipeline ==
    /\ InitBatch
    /\ os_type = "Linux"
    /\ args.process_lyrics

NextPipeline ==
    \/ NextBatch
    \/ MainRenameFiles
    \/ RenameFile
    \/ RenameReturn

SpecPipeline == InitPipeline /\ [][NextPipeline]_vars

\* the AcoustID recordings and the files _recognize_song and _update_audio_metadata are
\* checked on; "r" is the recording's identifier
Track(id, position) == [id |-> id, position |-> Number(position)]
TrackUnplaced(id) == [id |-> id]

Medium(position, count, tracks) ==
    Put([position |-> Number(position), tracks |-> tracks], "track-count", Number(count))

MediumOther == Medium(1, 5, <<Track("x", 1)>>)
MediumFirst == Medium(1, 3, <<Track("r", 1)>>)
MediumSecond == Medium(2, 4, <<Track("x", 1), Track("r", 2)>>)
MediumBare == [tracks |-> <<TrackUnplaced("r")>>]
MediumEmpty == [position |-> Number(1)]

Release(count, mediums) == Put([mediums |-> mediums], "medium-count", Number(count))

ReleaseChoices ==
    { Release(1, <<MediumFirst>>),
      Release(2, <<MediumOther, MediumSecond>>),
      Release(3, <<MediumFirst, MediumSecond>>),
      Release(1, <<MediumOther>>),
      Release(1, <<MediumEmpty>>),
      [mediums |-> <<MediumBare>>],
      [id |-> "bare"] }

ReleaseLists ==
    {<<>>} \cup { <<a>> : a \in ReleaseChoices } \cup { <<a, b>> : a, b \in ReleaseChoices }

Described ==
    [id |-> "r", title |-> <<"T">>, artists |-> <<[name |-> <<"A">>]>>,
     releasegroups |-> <<[title |-> <<"L">>, artists |-> <<[name |-> <<"B">>]>>]>>,
     genres |-> <<[name |-> <<"G">>]>>]

RecordingChoices ==
    { Put(Restrict(Described, keys), "releases", releases) :
        keys \in {{"id"}, {"id", "title"}, {"id", "artists", "releasegroups"}, DOMAIN Described},
        releases \in ReleaseLists }

OldText == <<"o">>

OldTags(ext) ==
    CASE ext = <<".", "m", "p", "3">> ->
           [key \in {"TIT2", "TPE1", "TALB", "TCON", "TPE2", "TRCK", "TPOS"} |-> OldText]
      [] ext = <<".", "f", "l", "a", "c">> ->
           [key \in { vorbis_mapping[k][2] : k \in 1..Len(vorbis_mapping) } |-> OldText]
      [] OTHER ->
           [key \in {"nam", "ART", "alb", "gen", "aART", "trkn", "disk"} |->
               IF key \in {"trkn", "disk"} THEN <<<<7, 9>>>> ELSE <<OldText>>]

InitRecognize ==
    /\ os_type = "Linux"
    /\ installed \in {{}, {"mutagen"}}
    /\ dir = [f \in Files |-> NameChoices[f]]
    /\ meta = [f \in Files |-> NoTags]
    /\ pc = "idle"
    /\ files = <<>>
    /\ idx = 1
    /\ changes = <<>>
    /\ dir0 = dir
    /\ faults = 0
    /\ oslog = <<>>
    /\ args = [use_recognition |-> FALSE, process_lyrics |-> FALSE]
    /\ task = [f \in Files |-> NoTask]
    /\ results = EmptyDict
    /\ meta0 = meta
    /\ calls = [f \in Files |-> [recognize |-> 0, write |-> 0, lyrics |-> 0]]
    /\ cover = NoFetch
    /\ call = NoCall
    /\ touched = {}
    /\ embed = NoEmbed
    /\ \E recordings \in {<<>>} \cup { <<recording>> : recording \in RecordingChoices } :
          recog = [stage |-> "called", recordings |-> recordings, metadata |-> NotRecognized]
    /\ \E ext \in AUDIO_EXTENSIONS, old \in BOOLEAN :
          LET tags == IF old THEN OldTags(ext) ELSE EmptyDict
          IN  update = [stage |-> "ready", ext |-> ext, tags0 |-> tags, tags |-> tags,
                        returned |-> FALSE]
    /\ saferename = NoSafeRename

NextRecognize == RecognizeSong \/ UpdateAudioMetadata

SpecRecognize == InitRecognize /\ [][NextRecognize]_vars

\* the directories and names _safe_rename is checked on: the file renamed, and beside it
\* files that hold the target, its suffixed names, or the name a long target is cut to
TargetName == <<"t">> \o ExtMp3
LongName == Repeat("b", LongLen) \o ExtMp3

OldNames == { <<"o">> \o ExtMp3, TargetName, WithCounter(<<"t">>, 1, ExtMp3) }

NewNames == { TargetName, <<"t", "?">> \o ExtMp3, <<" ">> \o TargetName, <<"o">> \o ExtMp3 }

Occupants ==
    { NoFile, TargetName, WithCounter(<<"t">>, 1, ExtMp3), WithCounter(<<"t">>, 2, ExtMp3) }

SafeRenameDirectories(occupants) ==
    { d \in [Files -> OldNames \cup occupants] :
        /\ d[1] \in OldNames
        /\ \A f \in Files \ {1} : d[f] \in occupants
        /\ \A f, g \in Files : f # g /\ d[f] # NoFile => d[f] # d[g] }

InitSafeRenameOn(directories, new_names) ==
    /\ os_type \in {"Windows", "Linux"}
    /\ installed = {}
    /\ dir \in directories
    /\ meta = [f \in Files |-> NoTags]
    /\ pc = "idle"
    /\ files = <<>>
    /\ idx = 1
    /\ changes = <<>>
    /\ dir0 = dir
    /\ faults = 0
    /\ oslog = <<>>
    /\ args = [use_recognition |-> FALSE, process_lyrics |-> FALSE]
    /\ task = [f \in Files |-> NoTask]
    /\ results = EmptyDict
    /\ meta0 = meta
    /\ calls = [f \in Files |-> [recognize |-> 0, write |-> 0, lyrics |-> 0]]
    /\ cover = NoFetch
    /\ call = NoCall
    /\ touched = {}
    /\ embed = NoEmbed
    /\ update = NoUpdate
    /\ recog = NoRecog
    /\ \E new_name \in new_names : saferename = SafeRenameCalled(dir[1], new_name)

InitSafeRename == InitSafeRenameOn(SafeRenameDirectories(Occupants), NewNames)

NextSafeRename == SafeRenameEnter \/ SafeRenameLoop \/ SafeRenameOs

\* the statements of one call run one after the other, none is held up for ever
SpecSafeRename == InitSafeRename /\ [][NextSafeRename]_vars /\ WF_vars(NextSafeRename)

\* the same call with targets longer than max_length among the new names, and the name
\* such a target is cut to among the names taken
InitLongRename ==
    InitSafeRenameOn(SafeRenameDirectories(Occupants \cup {Sanitize("Linux", LongName)}),
                     NewNames \cup {LongName})

SpecLongRename == InitLongRename /\ [][NextSafeRename]_vars

InitSanitize ==
    /\ os_type \in {"Windows", "Linux"}
    /\ installed = {}
    /\ dir = [f \in Files |-> NameChoices[f]]
    /\ meta = [f \in Files |-> NoTags]
    /\ pc = "idle"
    /\ files = <<>>
    /\ idx = 1
    /\ changes = <<>>
    /\ dir0 = dir
    /\ faults = 0
    /\ oslog = <<>>
    /\ args = [use_recognition |-> FALSE, process_lyrics |-> FALSE]
    /\ task = [f \in Files |-> NoTask]
    /\ results = EmptyDict
    /\ meta0 = meta
    /\ calls = [f \in Files |-> [recognize |-> 0, write |-> 0, lyrics |-> 0]]
    /\ cover = NoFetch
    /\ \E filename \in SanitizeInputs :
          call = [stage |-> "called", filename |-> filename, result |-> <<>>]
    /\ touched = {}
    /\ UnitsIdle

NextSanitize == SanitizeReturn \/ SanitizeAgain

SpecSanitize == InitSanitize /\ [][NextSanitize]_vars

-----------------------------------------------------------------------------
(* Properties of the rename pass and of undo *)

\* the file's tags make it eligible for renaming
HasRealTags(t) ==
    /\ t.kind = "tags"
    /\ t.has["artist"] /\ t.has["title"]
    /\ t.val["artist"] \notin {<<>>, UnknownArtist}
    /\ t.val["title"] \notin {<<>>, UnknownTitle}

\* "{artist} - {title}{ext}" of file f at the start of the pass, and its sanitized form
Computed(f) == meta[f].val["artist"] \o <<" ", "-", " ">> \o meta[f].val["title"] \o SplitExt(dir0[f])[2]
Target(f) == Sanitize(os_type, Computed(f))

\* the files that rename_files() examines and finds eligible
Eligible(f) == dir0[f] \in get_audio_files(dir0) /\ HasRealTags(meta[f]) /\ "mutagen" \in installed

\* position of file f in the listing of the pass
Position(f) == CHOOSE k \in 1..Len(files) : files[k] = dir0[f]

\* file f has been handled by the loop of rename_files()
Handled(f) ==
    /\ dir0[f] \in get_audio_files(dir0)
    /\ \/ pc = "renamed"
       \/ pc = "rename" /\ Position(f) < idx

\* the loop of rename_files() has ended, the listing is still at hand
LoopDone == pc = "rename" /\ idx > Len(files)

\* name is target with a " (N)" suffix before the extension, N >= 1
Suffixed(target, n) == SplitExt(target)[1] \o <<" ", "(">> \o Str(n) \o <<")">> \o SplitExt(target)[2]
HasSuffix(name, target) == \E n \in 1..(NumFiles + 2) : name = Suffixed(target, n)

\* os.rename raised for the file named old at the start of the pass
RenameRaised(f) == \E k \in 1..Len(oslog) : oslog[k][1] = dir0[f] /\ oslog[k][3]

\* two eligible files with the same target
Collide(f, g) == f # g /\ Eligible(f) /\ Eligible(g) /\ Target(f) = Target(g)

\* C1 -- round-trip undo: after rename_files() and then undo_rename(changes), with no
\* OS rename failing, every file is under the name it had before the pass
C1_RoundTripUndo ==
    (pc = "undone" /\ faults = 0) => \A f \in Files : dir[f] = dir0[f]

\* C2 (as stated) -- after the pass, the files of a collision group exist under
\* pairwise distinct names, none is lost, and every one processed after the first
\* of the group carries a " (N)" suffix
C2_SuffixAfterFirst ==
    (LoopDone /\ faults = 0) =>
        \A f, g \in Files :
            Collide(f, g) =>
                /\ dir[f] # NoFile /\ dir[g] # NoFile /\ dir[f] # dir[g]
                /\ (Position(f) < Position(g) => HasSuffix(dir[g], Target(g)))

\* C2 (amended) -- after the pass no file is lost, the names are pairwise distinct, and
\* every file of a collision group that did not already bear its computed name is under
\* the sanitized target name or under it with a " (N)" suffix, N >= 1 (under its old name
\* when its OS rename failed)
C2_CollisionSafety ==
    pc = "renamed" =>
        /\ \A f \in Files : dir[f] # NoFile
        /\ \A f, g \in Files : f # g => dir[f] # dir[g]
        /\ \A f, g \in Files :
              (Collide(f, g) /\ dir0[f] # Computed(f)) =>
                  IF RenameRaised(f)
                  THEN dir[f] = dir0[f]
                  ELSE dir[f] = Target(f) \/ HasSuffix(dir[f], Target(f))

\* two files with the same target have been through the pass, one of them now suffixed
C2_Witness ==
    /\ pc = "renamed"
    /\ \E f, g \in Files :
          /\ Collide(f, g)
          /\ dir[f] = Target(f)
          /\ dir[g] = Suffixed(Target(g), 1)
          /\ dir0[f] # dir[f] /\ dir0[g] # dir[g]

\* C3 -- a file whose sanitized target name equals its own current name is not renamed
\* and adds no change-set entry
C3_SanitizedNoOp ==
    \A f \in Files :
        (Handled(f) /\ Eligible(f) /\ Target(f) = dir0[f]) =>
            /\ dir[f] = dir0[f]
            /\ dir0[f] \notin Values(changes)

\* C4 -- a file named exactly "{artist} - {title}{ext}" for its own tags is left
\* untouched by the pass and has no change-set entry
C4_IdempotentRename ==
    \A f \in Files :
        (pc \in {"rename", "renamed"} /\ HasRealTags(meta[f]) /\ dir0[f] = Computed(f)) =>
            /\ dir[f] = dir0[f]
            /\ dir0[f] \notin Values(changes)
            /\ dir0[f] \notin Keys(changes)

\* an eligible file already under its computed name went through a pass that renamed another file
C4_Witness ==
    /\ pc = "renamed"
    /\ changes # <<>>
    /\ \E f \in Files : Eligible(f) /\ dir0[f] = Computed(f) /\ dir[f] = dir0[f]

\* the tags the skip policy names: none, or artist or title missing, empty or a placeholder
LacksTags(t) ==
    \/ t.kind = "none"
    \/ /\ t.kind = "tags"
       /\ \/ ~t.has["artist"] \/ ~t.has["title"]
          \/ t.val["artist"] \in {<<>>, UnknownArtist}
          \/ t.val["title"] \in {<<>>, UnknownTitle}

\* C5 -- skip policy: a file without tags, or whose artist or title is missing, empty or
\* a placeholder, keeps its name and is neither a key nor a value of the change set
C5_SkipPolicy ==
    \A f \in Files :
        (pc \in {"rename", "renamed"} /\ LacksTags(meta[f])) =>
            /\ dir[f] = dir0[f]
            /\ dir0[f] \notin Keys(changes)
            /\ dir0[f] \notin Values(changes)

\* a placeholder-tagged audio file went through a pass that renamed another file
C5_Witness ==
    /\ pc = "renamed"
    /\ "mutagen" \in installed
    /\ changes # <<>>
    /\ \E f \in Files :
          /\ dir0[f] \in get_audio_files(dir0)
          /\ meta[f].kind = "tags"
          /\ meta[f].val["artist"] = UnknownArtist

\* the calls of os.rename made by the pass
PassLog == IF pc \in {"rename", "renamed"} THEN oslog ELSE <<>>

\* C12 -- change-set invariant: at the end of a pass every key of the change set is the
\* current name of a file whose name at the start of the pass is the value; the keys are
\* pairwise distinct and every assignment changes[name] = file made a new key
C12_ChangeSetInvariant ==
    pc = "renamed" =>
        /\ \A k \in 1..Len(changes) :
              \E f \in Files : dir[f] = changes[k][1] /\ dir0[f] = changes[k][2]
        /\ \A j, k \in 1..Len(changes) : j # k => changes[j][1] # changes[k][1]
        /\ Len(changes) = Cardinality({k \in 1..Len(PassLog) : PassLog[k][5]})

\* a pass ended with two entries, the second file having taken the name the first one left
C12_Witness ==
    /\ pc = "renamed"
    /\ Len(changes) = 2
    /\ changes[2][1] = changes[1][2]

\* C17 -- when os.rename fails inside _safe_rename() the original name is returned with
\* changed = false; in rename_files() the file is still under its original name and the
\* change set has no entry for it
C17_FailedRenameIsNoChange ==
    /\ \A k \in 1..Len(oslog) :
          oslog[k][3] => (oslog[k][4] = oslog[k][1] /\ ~oslog[k][5])
    /\ \A k \in 1..Len(PassLog) :
          PassLog[k][3] =>
              /\ \E f \in Files : dir0[f] = PassLog[k][1] /\ dir[f] = dir0[f]
              /\ PassLog[k][1] \notin Values(changes)

\* a pass ended in which os.rename failed for one file and another file was renamed
C17_Witness ==
    /\ pc = "renamed"
    /\ changes # <<>>
    /\ \E k \in 1..Len(oslog) : oslog[k][3] /\ oslog[k][4] = oslog[k][1]

\* C18 -- a failure on one file does not stop the pass: when the loop has ended, os.rename
\* has been called for every eligible file not already under its computed name, and unless
\* that call failed the file is under the new name, recorded in the change set
C18_PassContinuesAfterFailure ==
    (LoopDone \/ pc = "renamed") =>
        \A f \in Files :
            (Eligible(f) /\ dir0[f] # Computed(f)) =>
                \E k \in 1..Len(oslog) :
                    /\ oslog[k][1] = dir0[f]
                    /\ \/ oslog[k][3]
                       \/ /\ dir[f] = oslog[k][2]
                          /\ \E j \in 1..Len(changes) : changes[j] = <<dir[f], dir0[f]>>

\* the loop ended after File() raised on one file, or os.rename failed for it, and a file
\* later in the listing was renamed
C18_Witness ==
    /\ LoopDone
    /\ \E f, g \in Files :
          /\ dir0[f] \in get_audio_files(dir0) /\ dir0[g] \in get_audio_files(dir0)
          /\ Position(f) < Position(g)
          /\ "mutagen" \in installed
          /\ meta[f].kind = "unreadable" \/ RenameRaised(f)
          /\ Eligible(g) /\ dir[g] # dir0[g]

\* the file a change-set entry is about: the one that bore the entry's old name at the
\* start of the pass
EntryFile(k) == CHOOSE f \in Files : dir0[f] = changes[k][2]

\* C16 -- best-effort undo: after undo_rename(), with no OS rename failing, every entry
\* whose new name was still in the directory has its file back under the original name,
\* and every entry whose file was removed or renamed by something else was skipped: the
\* file is as that left it
C16_BestEffortUndo ==
    (pc = "undone" /\ faults = 0) =>
        \A k \in 1..Len(changes) :
            IF EntryFile(k) \in touched
            THEN dir[EntryFile(k)] \in {NoFile, OtherName(EntryFile(k))}
            ELSE dir[EntryFile(k)] = changes[k][2]

-----------------------------------------------------------------------------
(* Properties of the enrichment pass *)

\* C6 -- process_files() returns a mapping with one outcome for each audio file of the
\* directory, whatever use_recognition and process_lyrics are
C6_ResultForEveryFile ==
    pc = "processed" => DOMAIN results = get_audio_files(dir)

\* C7 -- partial-failure isolation: the batch is never aborted by a task's exception; the
\* returned mapping has an entry for every file, {"error": message} for a task that
\* raised and the task's own returned outcome for every other
C7_PartialFailureIsolation ==
    /\ pc # "aborted"
    /\ (pc = "processed" /\ args.process_lyrics) =>
          /\ DOMAIN results = get_audio_files(dir)
          /\ \A f \in Files :
                dir[f] \in get_audio_files(dir) =>
                    IF task[f].st = "raised"
                    THEN results[dir[f]] = [error |-> task[f].exc]
                    ELSE task[f].st = "done" /\ results[dir[f]] = task[f].result

\* a batch returned in which one task raised and another returned its own outcome
C7_Witness ==
    /\ pc = "processed"
    /\ \E f, g \in Files :
          /\ task[f].st = "raised"
          /\ DOMAIN results[dir[f]] = {"error"}
          /\ task[g].st = "done"
          /\ "lyrics_found" \in DOMAIN results[dir[g]]

\* C8 (as stated) -- the recognizer is invoked only when use_recognition is set and the
\* current artist and title are both placeholders, and a real artist or title tag is
\* never overwritten
C8_OnlyWhenBothPlaceholders ==
    \A f \in Files :
        /\ calls[f].recognize > 0 =>
              /\ args.use_recognition
              /\ CurrentArtist(meta0[f]) = UnknownArtist
              /\ CurrentTitle(meta0[f]) = UnknownTitle
        /\ (meta0[f].kind = "tags" /\ CurrentArtist(meta0[f]) # UnknownArtist) =>
              CurrentArtist(meta[f]) = CurrentArtist(meta0[f])
        /\ (meta0[f].kind = "tags" /\ CurrentTitle(meta0[f]) # UnknownTitle) =>
              CurrentTitle(meta[f]) = CurrentTitle(meta0[f])

\* C8 (amended) -- the recognizer is invoked, and the tags are rewritten, only when
\* use_recognition is set and the current artist or the current title is a placeholder
C8_OnlyWhenSomePlaceholder ==
    \A f \in Files :
        (calls[f].recognize > 0 \/ calls[f].write > 0 \/ meta[f] # meta0[f]) =>
            /\ args.use_recognition
            /\ \/ CurrentArtist(meta0[f]) = UnknownArtist
               \/ CurrentTitle(meta0[f]) = UnknownTitle

\* a file with a real artist and a placeholder title was recognized and its artist rewritten
C8_Witness ==
    \E f \in Files :
        /\ calls[f].recognize > 0
        /\ meta0[f].kind = "tags"
        /\ CurrentArtist(meta0[f]) # UnknownArtist
        /\ CurrentTitle(meta0[f]) = UnknownTitle
        /\ CurrentArtist(meta[f]) # CurrentArtist(meta0[f])

\* C9 -- recognition gating: with use_recognition set, a file whose artist and title are
\* both real is never recognized and its metadata is never written
C9_RecognitionGating ==
    \A f \in Files :
        ( /\ args.use_recognition
          /\ meta0[f].kind = "tags"
          /\ TagGet(meta0[f], "artist", UnknownArtist) # UnknownArtist
          /\ TagGet(meta0[f], "title", UnknownTitle) # UnknownTitle ) =>
            /\ calls[f].recognize = 0
            /\ calls[f].write = 0
            /\ meta[f] = meta0[f]

\* with use_recognition set, a file with real tags went through the batch untouched
\* while another file was recognized
C9_Witness ==
    /\ pc = "processed"
    /\ args.use_recognition
    /\ \E f, g \in Files :
          /\ meta0[f].kind = "tags"
          /\ CurrentArtist(meta0[f]) # UnknownArtist
          /\ CurrentTitle(meta0[f]) # UnknownTitle
          /\ task[f].st = "done"
          /\ calls[f].lyrics = 1
          /\ calls[g].recognize = 1

\* the outcome of a finished task as the loop over as_completed records it
Outcome(f) == IF task[f].st = "raised" THEN [error |-> task[f].exc] ELSE task[f].result

Dispatched == {f \in Files : task[f].st # "none"}

\* C19 -- whatever the order of completion: every file of the listing is dispatched to one
\* task and no two tasks are given the same file; every collected task has its own
\* outcome under its own file's name, and the returned mapping has exactly one entry per
\* dispatched file
C19_OneEntryPerFileOwnOutcome ==
    /\ pc = "processing" =>
          /\ \A name \in get_audio_files(dir) :
                Cardinality({f \in Dispatched : task[f].file_path = Join(directory, name)}) = 1
          /\ \A f \in Dispatched : task[f].file = dir[f] /\ Of(f) = f
    /\ \A f \in Dispatched :
          task[f].collected > 0 =>
              /\ task[f].file \in DOMAIN results
              /\ results[task[f].file] = Outcome(f)
    /\ (pc = "processed" /\ Dispatched # {}) =>
          /\ DOMAIN results = {task[f].file : f \in Dispatched}
          /\ Cardinality(DOMAIN results) = Cardinality(Dispatched)

\* every future has been collected, the one submitted second before the one submitted
\* first, and the two outcomes differ
C19_Witness ==
    /\ pc = "processing"
    /\ \A f \in Dispatched : task[f].collected > 0
    /\ \E f, g \in Dispatched :
          /\ PositionIn(task[f].file, files) < PositionIn(task[g].file, files)
          /\ task[g].collected < task[f].collected
          /\ Outcome(f) # Outcome(g)

\* the task of file f has ended
Ended(f) == task[f].st \in {"done", "raised"}

-----------------------------------------------------------------------------
(* Properties of the cover chain *)

ServiceRank(service) ==
    CASE service = "musicbrainz" -> 1
      [] service = "coverartarchive" -> 2
      [] service = "itunes" -> 3
      [] service = "deezer" -> 4

\* iTunes answered with a result that holds an artwork URL
ITunesValid ==
    /\ cover.itunes \in ITunesAnswers
    /\ Status(cover.itunes) = 200
    /\ cover.itunes.resultCount > 0
    /\ "artworkUrl100" \in DOMAIN cover.itunes.result

\* C10 -- cover fallback ordering: the services are queried in the order MusicBrainz /
\* Cover Art Archive, iTunes, Deezer; when the first stage gave no URL and iTunes answers
\* with a valid URL, that URL (at the large size) is the result and Deezer is not queried
C10_CoverFallbackOrdering ==
    /\ \A a, b \in 1..Len(cover.queried) :
          a < b => ServiceRank(cover.queried[a]) < ServiceRank(cover.queried[b])
    /\ ITunesValid =>
          /\ cover.stage = "returned"
          /\ cover.result = [host |-> "itunes", id |-> cover.itunes.result.artworkUrl100.id,
                             size |-> "600x600"]
          /\ \A k \in 1..Len(cover.queried) : cover.queried[k] # "deezer"

\* MusicBrainz was queried and gave no usable cover, then iTunes gave a valid URL
C10_Witness ==
    /\ cover.stage = "returned"
    /\ ITunesValid
    /\ Len(cover.queried) >= 2
    /\ cover.queried[1] = "musicbrainz"
    /\ cover.result # None

\* the chain came to Deezer: a request was sent, or requests could not be imported
ReachedDeezer == cover.deezer # None

\* a non-empty URL
IsUrl(v) == "host" \in DOMAIN v

\* C11 -- the chain stops only at a stage that produced a usable URL: when
\* fetch_album_cover() returns without having come to the last stage, Deezer, the value
\* returned is a non-empty URL of the stage it stopped at (Cover Art Archive when iTunes
\* was not queried, iTunes otherwise)
C11_StopsOnlyOnUsableUrl ==
    (cover.stage = "returned" /\ ~ReachedDeezer) =>
        /\ IsUrl(cover.result)
        /\ cover.result.host = (IF cover.itunes = None THEN "coverartarchive" ELSE "itunes")

-----------------------------------------------------------------------------
(* Properties of _sanitize_filename *)

\* the name after the dialect's stripping and the trimming of whitespace
Trimmed(filename) == Strip(SanitizeDialect(os_type, filename), Whitespace)

\* a name read as stem and extension, the extension starting at the last dot
StemOf(name) == IF RFind(name, ".") > 0 THEN SubSeq(name, 1, RFind(name, ".") - 1) ELSE name
ExtOf(name) == IF RFind(name, ".") > 0 THEN SubSeq(name, RFind(name, "."), Len(name)) ELSE <<>>

AudioFile == <<"a", "u", "d", "i", "o", "_", "f", "i", "l", "e">>

\* C13 -- length cap: a name that is longer than 255 after stripping and trimming comes
\* back exactly 255 long, extension included: its stem cut short, its extension whole
C13_LengthCapExact ==
    (call.stage = "returned" /\ Len(Trimmed(call.filename)) > max_length) =>
        LET name == Trimmed(call.filename)
            ext == SplitExt(name)[2]
        IN  /\ Len(call.result) = max_length
            /\ call.result = Slice(SplitExt(name)[1], max_length - Len(ext)) \o ext

\* C14 -- empty stem: a name whose stem is empty after stripping and trimming, a name that
\* is only an extension included, comes back as "audio_file" followed by the extension
C14_EmptyStem ==
    (call.stage = "returned" /\ StemOf(Trimmed(call.filename)) = <<>>) =>
        call.result = AudioFile \o ExtOf(Trimmed(call.filename))

\* C15 -- reserved device names: on Windows a name whose stem, after the invalid characters
\* are stripped, is a reserved device name in any case comes back prefixed with "_"
C15_ReservedStemPrefixed ==
    ( /\ call.stage = "returned"
      /\ os_type = "Windows"
      /\ Upper(SplitExt(RemoveChars(call.filename, invalid_chars))[1]) \in forbidden_names ) =>
        /\ call.result # <<>>
        /\ Head(call.result) = "_"

-----------------------------------------------------------------------------
(* embed_album_art *)

\* the calls of embed_album_art that returned True
Embedded == { k \in 1..Len(embed.returned) : embed.returned[k] }

\* both calls returned True
EmbeddedTwice == embed.stage = "ready" /\ Len(embed.returned) = 2 /\ Embedded = {1, 2}

\* one picture, and the tags that are not pictures as before, after every call that returned True
OnePictureTagsKept ==
    embed.stage = "ready" =>
        \A k \in Embedded :
            /\ PictureCount(embed.after[k]) = 1
            /\ NonPicture(embed.after[k]) = NonPicture(embed.before[k])

-----------------------------------------------------------------------------
(* _recognize_song and _update_audio_metadata *)

\* the recording the metadata was taken from
Recognized == recog.stage = "returned" /\ recog.metadata.status

\* the metadata was written to the tags
Updated == Recognized /\ update.stage = "returned" /\ update.returned

\* the logical fields a tag carries
FieldsOf(key) ==
    CASE key \in {"TIT2", "title", "nam"} -> {"title"}
      [] key \in {"TPE1", "artist", "ART"} -> {"artist"}
      [] key \in {"TALB", "album", "alb"} -> {"album"}
      [] key \in {"TCON", "genre", "gen"} -> {"genre"}
      [] key \in {"TPE2", "albumartist", "aART"} -> {"albumartist"}
      [] key \in {"TRCK", "trkn"} -> {"tracknumber", "totaltracks"}
      [] key \in {"TPOS", "disk"} -> {"discnumber", "totaldiscs"}
      [] OTHER -> {key}

\* the logical fields the recognized data gives: a track field counts when some matching
\* track, its medium or its release gives it
Known(recording) ==
    LET matches == Matches(recording)
        Some(part, key) == \E k \in 1..Len(matches) : key \in DOMAIN matches[k][part]
        When(cond, field) == IF cond THEN {field} ELSE {}
    IN  When("title" \in DOMAIN recording, "title")
        \cup When(Get(recording, "artists", <<>>) # <<>>, "artist")
        \cup When(Get(recording, "releasegroups", <<>>) # <<>>, "album")
        \cup When(Get(recording, "releasegroups", <<>>) # <<>>, "albumartist")
        \cup When(Get(recording, "genres", <<>>) # <<>>, "genre")
        \cup When(Some("track", "position"), "tracknumber")
        \cup When(Some("medium", "position"), "discnumber")
        \cup When(Some("medium", "track-count"), "totaltracks")
        \cup When(Some("release", "medium-count"), "totaldiscs")

\* the tag is as it was before the write
Kept(key) ==
    /\ key \in DOMAIN update.tags <=> key \in DOMAIN update.tags0
    /\ key \in DOMAIN update.tags => update.tags[key] = update.tags0[key]

\* C22: after recognition and _update_audio_metadata, every tag whose logical field is absent
\* or unknown in the recognized data keeps its previous value, and no tag of the file is set
\* to an empty string
C22_AbsentFieldsNotMutated ==
    Updated =>
        \A key \in DOMAIN update.tags \cup DOMAIN update.tags0 :
            /\ FieldsOf(key) \cap Known(recog.recordings[1]) = {} => Kept(key)
            /\ key \in DOMAIN update.tags => update.tags[key] \notin {<<>>, << <<>> >>}

\* C23: when the recording's identifier matches more than one track, the track number, disc
\* number, total tracks and total discs of the metadata are those of the first matching track
\* in traversal order
C23_FirstMatchWins ==
    Recognized /\ Len(Matches(recog.recordings[1])) > 1 =>
        LET first == TrackFields(Head(Matches(recog.recordings[1])))
        IN  \A key \in TrackKeys : recog.metadata[key] = first[key]

-----------------------------------------------------------------------------
(* _safe_rename, statement by statement *)

\* the call has returned
SafeRenameReturned == saferename.stage = "returned"

\* the name handed to os.rename is the sanitized target when that was free, and otherwise
\* the suffixed name of the smallest N that was free
SmallestFree ==
    LET sanitized == Sanitize(os_type, saferename.arg)
        base == SplitExt(sanitized)[1]
        extension == SplitExt(sanitized)[2]
        Free(name) == ~Exists(dir0, Join(directory, name))
    IN  IF Free(sanitized)
        THEN saferename.target = sanitized
        ELSE \E N \in 1..(NumFiles + 1) :
                /\ saferename.target = WithCounter(base, N, extension)
                /\ Free(WithCounter(base, N, extension))
                /\ \A M \in 1..(N - 1) : ~Free(WithCounter(base, M, extension))

\* C24: the collision loop of _safe_rename terminates for every finite directory; it uses the
\* sanitized target unsuffixed when that name is free, and otherwise "stem (N).ext" of the
\* smallest N = 1, 2, 3, ... whose name is free
C24_CollisionLoopTerminates ==
    /\ <>SafeRenameReturned
    /\ [](SafeRenameReturned /\ saferename.called => SmallestFree)

\* the target and "stem (1).ext" were both taken, and "stem (2).ext" was handed to os.rename
C24_Witness ==
    /\ SafeRenameReturned
    /\ saferename.called
    /\ saferename.counter = 3
    /\ saferename.target = WithCounter(saferename.base, 2, saferename.extension)

\* C29: every name _safe_rename passes to the operating-system rename is at most 255 long,
\* also when a " (N)" suffix has been appended to a name that sanitization had truncated
C29_RenameTargetWithinLimit ==
    saferename.stage = "returned" /\ saferename.called => Len(saferename.target) <= max_length

-----------------------------------------------------------------------------
(* _process_file_with_lyrics: the error slots *)

\* the outcome says the stage was made and failed
FailedStage(result, key) == key \in DOMAIN result /\ result[key] = FALSE

\* the outcome carries the error of the stage under the stage's own key
Carries(result, key, messages) == key \in DOMAIN result /\ result[key] \in messages

RecognitionMessages == { c.message : c \in {d \in RecognitionChoices : ~d.status} }
LyricsMessages == { c.message : c \in {d \in LyricsChoices : ~d.status} }

\* C26: the outcome of _process_file_with_lyrics records the recognition error, the lyrics
\* lookup error and the lyrics embedding error in separate slots; when recognition fails and
\* the lyrics lookup then fails as well, the outcome carries both errors, neither overwriting
\* the other
C26_SeparateErrorSlots ==
    \A f \in Dispatched :
        LET result == task[f].result
        IN  /\ FailedStage(result, "recognition") =>
                  Carries(result, "recognition_error", RecognitionMessages)
            /\ FailedStage(result, "lyrics_found") =>
                  Carries(result, "lyrics_error", LyricsMessages)
            /\ FailedStage(result, "lyrics_embedded") =>
                  Carries(result, "embed_error", {"Error embedding lyrics"})

\* a task has ended with a failed recognition and a failed lyrics lookup, and its outcome
\* has been collected
C26_Witness ==
    \E f \in Dispatched :
        /\ task[f].st = "done"
        /\ task[f].collected > 0
        /\ FailedStage(task[f].result, "recognition")
        /\ FailedStage(task[f].result, "lyrics_found")
        /\ results[task[f].file] = task[f].result

-----------------------------------------------------------------------------
(* process_files, then rename_files *)

\* no task of the enrichment pass is waiting or running
NoTaskActive == \A f \in Files : task[f].st \in {"none", "done", "raised"}

\* C25: the rename pass never overlaps the enrichment pass: process_files returns only after
\* every worker task has finished and rename_files is started only after that, so no file is
\* renamed while an enrichment task is still running on any file
C25_RenameAfterEnrichment ==
    /\ [](pc \in {"processed", "rename", "renamed"} => NoTaskActive)
    /\ [][pc' = "rename" => pc \in {"processed", "rename"}]_vars
    /\ [][dir' # dir \/ oslog' # oslog => NoTaskActive /\ pc = "rename"]_vars

\* a file whose tags a task of the enrichment pass had written has been renamed
C25_Witness ==
    /\ pc = "rename"
    /\ \E k \in 1..Len(oslog) : ~oslog[k][3] /\ oslog[k][5]
    /\ \E f \in Files : task[f].st = "done" /\ calls[f].write = 1 /\ dir[f] # dir0[f]

-----------------------------------------------------------------------------
(* undo_rename: nothing is overwritten or removed *)

Present(d) == {f \in Files : d[f] # NoFile}

\* C27: undo_rename never overwrites or removes a file: a file that is renamed back goes to
\* a name no file bore, so when an entry's original name is occupied the file is not moved
\* onto it; every file of the directory is still there after each step of the undo, and
\* the number of files is the same before and after
C27_UndoKeepsEveryFile ==
    [][pc = "undo" =>
          /\ Present(dir') = Present(dir)
          /\ Cardinality(Names(dir')) = Cardinality(Names(dir))
          /\ \A f \in Files : dir'[f] # dir[f] => dir'[f] \notin Names(dir)]_vars

\* the undo is over; the original name of an entry was occupied by another file, and the
\* entry's file went to the suffixed name beside it
C27_Witness ==
    /\ pc = "undone"
    /\ \E k \in 1..Len(changes), g \in Files :
          /\ g # EntryFile(k)
          /\ dir[g] = changes[k][2]
          /\ dir[EntryFile(k)] = Suffixed(changes[k][2], 1)

-----------------------------------------------------------------------------
(* _sanitize_filename applied twice *)

\* C28: _sanitize_filename is idempotent on both dialects: sanitizing a name it has returned
\* gives the same name, sanitize(sanitize(x)) = sanitize(x)
C28_SanitizeIdempotent ==
    call.stage = "returned again" => call.result = call.filename

-----------------------------------------------------------------------------
(* rename_files: each file once *)

\* the calls of os.rename of the pass that renamed a file
Renamed == { k \in 1..Len(PassLog) : PassLog[k][5] }

\* C30: within one rename_files pass each file is renamed at most once: the pass works from
\* the directory listing taken at its start, a file renamed earlier in the pass is never
\* examined again under its new name, and the values (the original names) of the returned
\* change set are pairwise distinct
C30_EachFileRenamedOnce ==
    /\ pc = "rename" =>
          /\ { files[k] : k \in 1..Len(files) } = get_audio_files(dir0)
          /\ \A j, k \in 1..Len(files) : j # k => files[j] # files[k]
    /\ \A k \in 1..Len(PassLog) :
          /\ PassLog[k][1] \in get_audio_files(dir0)
          /\ \A j \in Renamed : j < k => PassLog[k][1] # PassLog[j][4]
    /\ \A j, k \in Renamed : j # k => PassLog[j][1] # PassLog[k][1]
    /\ pc \in {"rename", "renamed"} =>
          /\ \A f \in Files :
                Cardinality({ k \in Renamed : PassLog[k][1] = dir0[f] }) =
                    IF dir[f] # dir0[f] THEN 1 ELSE 0
          /\ \A j, k \in 1..Len(changes) : j # k => changes[j][2] # changes[k][2]

\* the pass is over and has renamed two files, one of them to a suffixed name
C30_Witness ==
    /\ pc = "renamed"
    /\ Cardinality(Renamed) = 2
    /\ Len(changes) = 2
    /\ \E k \in Renamed : \E f \in Files : HasSuffix(PassLog[k][4], Target(f))

====
